---- MODULE Spec2Model ----
(***************************************************************************)
(* Model of the bookkeeping core of Hugo810/DRE: class Sistema of dre.py   *)
(* (the percentage variant) and of drefluxo.py (the validating variant,    *)
(* which also has the cash-flow view).                                     *)
(*                                                                         *)
(* Python values are represented as follows.                               *)
(*  - a str whose content matters (dates, amounts typed as text, bank and  *)
(*    category names) is the sequence of its character codes, so that      *)
(*    strip(), sort(), strptime() and float() are computed on characters;  *)
(*  - a str used only for equality (status, tipo, dre_field, nome) is a    *)
(*    TLA+ string;                                                         *)
(*  - money is an integer number of cents; a float amount is its value in  *)
(*    cents;                                                               *)
(*  - None is the integer None below (only conta_dre_id may carry it).     *)
(***************************************************************************)
EXTENDS Integers, Sequences, FiniteSets, TLC

\* variant: "dre" (dre.py) or "drefluxo" (drefluxo.py)
\* contas_dre .. next_lanc_id: the fields of the Sistema
\* arquivo: dados_sistema.json on disk
\* chamada: the last call made on the core, with its arguments
\* ret: what that call returned
\* dre_vals: the mapping returned by the last calcular_dre
\* fluxo: rows and totals built by the last cash-flow view
\* outra: the fields of a second Sistema, of another process, on the same file
\* gravacao: how far each process is in its mutating call and its salvar_dados
VARIABLES variant, contas_dre, lancamentos, bancos, categorias, next_conta_dre_id, next_lanc_id, arquivo, chamada, ret, dre_vals, fluxo, outra, gravacao

vars == <<variant, contas_dre, lancamentos, bancos, categorias,
          next_conta_dre_id, next_lanc_id, arquivo, chamada, ret,
          dre_vals, fluxo, outra, gravacao>>

mem_vars == <<contas_dre, lancamentos, bancos, categorias,
              next_conta_dre_id, next_lanc_id>>

----------------------------------------------------------------------------
(* Bounds of the exploration *)

MaxContaId == 8       \* adicionar_conta_dre is explored while next id <= this
MaxLancId == 2        \* adicionar_lancamento is explored while next id <= this
MaxLancDRE == 2       \* entries of a store given to calcular_dre and the view
MaxBancos == 3        \* names of the bank list and of the category list

----------------------------------------------------------------------------
(* Python values *)

None == -1

Truthy(x) == x # None /\ x # 0

StrTruthy(s) == Len(s) > 0

EmptyStr == <<>>

ValueError == -1

\* character codes
chSpace == 32
chMinus == 45
chPlus == 43
chComma == 44
chDot == 46
chSlash == 47

IsDigit(c) == c >= 48 /\ c <= 57

RECURSIVE Num(_)
Num(p) == IF Len(p) = 0 THEN 0
          ELSE 10 * Num(SubSeq(p, 1, Len(p) - 1)) + (p[Len(p)] - 48)

AllDigits(p) == \A i \in 1..Len(p) : IsDigit(p[i])

\* str < str, as Python compares strings (code point by code point)
RECURSIVE StrLt(_, _)
StrLt(a, b) ==
    IF Len(b) = 0 THEN FALSE
    ELSE IF Len(a) = 0 THEN TRUE
    ELSE IF a[1] # b[1] THEN a[1] < b[1]
    ELSE StrLt(Tail(a), Tail(b))

\* str.strip()
RECURSIVE LStrip(_)
LStrip(s) == IF Len(s) > 0 /\ s[1] = chSpace THEN LStrip(Tail(s)) ELSE s

RECURSIVE RStrip(_)
RStrip(s) == IF Len(s) > 0 /\ s[Len(s)] = chSpace
             THEN RStrip(SubSeq(s, 1, Len(s) - 1)) ELSE s

strip(s) == RStrip(LStrip(s))

\* str.replace(old, new) for one-character old; new is a string
RECURSIVE replace(_, _, _)
replace(s, old, new) ==
    IF Len(s) = 0 THEN <<>>
    ELSE (IF s[1] = old THEN new ELSE <<s[1]>>) \o replace(Tail(s), old, new)

\* float(t), in cents; ValueError when t is not a decimal literal.  The
\* amounts explored have at most two decimals, so cents are exact.
floatBody(t) ==
    LET dots == {i \in 1..Len(t) : t[i] = chDot}
    IN  IF Cardinality(dots) > 1 THEN ValueError
        ELSE LET d     == IF dots = {} THEN Len(t) + 1 ELSE CHOOSE i \in dots : TRUE
                 int   == SubSeq(t, 1, d - 1)
                 frac  == SubSeq(t, d + 1, Len(t))
                 frac2 == SubSeq(frac \o <<48, 48>>, 1, 2)
             IN  IF Len(int) + Len(frac) = 0 \/ ~AllDigits(int) \/ ~AllDigits(frac)
                 THEN ValueError
                 ELSE 100 * Num(int) + Num(frac2)

IsFloatStr(t) ==
    LET u == IF Len(t) > 0 /\ t[1] \in {chMinus, chPlus} THEN Tail(t) ELSE t
    IN  floatBody(u) # ValueError

float(t) ==
    LET neg == Len(t) > 0 /\ t[1] = chMinus
        u   == IF Len(t) > 0 /\ t[1] \in {chMinus, chPlus} THEN Tail(t) ELSE t
    IN  IF neg THEN 0 - floatBody(u) ELSE floatBody(u)

\* the conversion of an amount typed as text: "1.000,50" -> 1000.50
ValorStr(s) == replace(replace(s, chDot, <<>>), chComma, <<chDot>>)

\* datetime.strptime(s, '%d/%m/%Y'): the date as an integer that orders as
\* the datetime does, or ValueError
IsLeap(y) == (y % 4 = 0 /\ y % 100 # 0) \/ y % 400 = 0

DaysInMonth(m, y) ==
    IF m = 2 THEN (IF IsLeap(y) THEN 29 ELSE 28)
    ELSE IF m \in {4, 6, 9, 11} THEN 30 ELSE 31

strptime(s) ==
    LET sl == {i \in 1..Len(s) : s[i] = chSlash}
    IN  IF Cardinality(sl) # 2 THEN ValueError
        ELSE LET i1 == CHOOSE i \in sl : \A j \in sl : i <= j
                 i2 == CHOOSE i \in sl : \A j \in sl : j <= i
                 pd == SubSeq(s, 1, i1 - 1)
                 pm == SubSeq(s, i1 + 1, i2 - 1)
                 py == SubSeq(s, i2 + 1, Len(s))
             IN  IF Len(pd) \notin {1, 2} \/ Len(pm) \notin {1, 2} \/ Len(py) # 4
                    \/ ~AllDigits(pd) \/ ~AllDigits(pm) \/ ~AllDigits(py)
                 THEN ValueError
                 ELSE IF Num(py) < 1 \/ Num(pm) \notin 1..12
                         \/ Num(pd) < 1 \/ Num(pd) > DaysInMonth(Num(pm), Num(py))
                 THEN ValueError
                 ELSE Num(py) * 10000 + Num(pm) * 100 + Num(pd)

----------------------------------------------------------------------------
(* The dataclasses and the in-memory store *)

\* ContaDRE(...): dre.py has the field percentual, drefluxo.py has not
ContaDRE(v, id, nome, dre_field, tipo, percentual) ==
    IF v = "dre"
    THEN [id |-> id, nome |-> nome, dre_field |-> dre_field, tipo |-> tipo,
          percentual |-> percentual]
    ELSE [id |-> id, nome |-> nome, dre_field |-> dre_field, tipo |-> tipo]

Lancamento(id, tipo, data_vencimento, entidade, descricao, valor, status, data_baixa, conta_banco, conta_dre_id, categoria_texto) ==
    [id |-> id, tipo |-> tipo, data_vencimento |-> data_vencimento,
     entidade |-> entidade, descricao |-> descricao, valor |-> valor,
     status |-> status, data_baixa |-> data_baixa,
     conta_banco |-> conta_banco, conta_dre_id |-> conta_dre_id,
     categoria_texto |-> categoria_texto]

LancamentoFields ==
    {"id", "tipo", "data_vencimento", "entidade", "descricao", "valor",
     "status", "data_baixa", "conta_banco", "conta_dre_id", "categoria_texto"}

ContaDREFields(v) ==
    IF v = "dre" THEN {"id", "nome", "dre_field", "tipo", "percentual"}
    ELSE {"id", "nome", "dre_field", "tipo"}

\* the fields of a Sistema after the assignments of __init__, before loading
SistemaVazio ==
    [contas_dre |-> <<>>, lancamentos |-> <<>>, bancos |-> <<>>,
     categorias |-> <<>>, next_conta_dre_id |-> 1, next_lanc_id |-> 1]

\* the fields of the running Sistema
Mem ==
    [contas_dre |-> contas_dre, lancamentos |-> lancamentos,
     bancos |-> bancos, categorias |-> categorias,
     next_conta_dre_id |-> next_conta_dre_id, next_lanc_id |-> next_lanc_id]

\* the program as one process: no second Sistema, no salvar_dados under way.
\* a, b: "pronto" (constructed, its call not made yet), "aberto" (inside
\* salvar_dados, after open(..., 'w')), "salvo" (salvar_dados returned),
\* "ausente" (no such process); op: the call each process made; escrito: the
\* length of the text written to the file since an open(..., 'w') of one of
\* two processes emptied it (kept only while two processes run); ultimo: the
\* process whose write came last; sobreposta: an open() came between the
\* open() and the write of the other process
UmaInstancia ==
    [a |-> "pronto", b |-> "ausente", op |-> [a |-> 0, b |-> 0],
     escrito |-> 0, ultimo |-> "nenhum", sobreposta |-> FALSE]

\* list helpers
InList(x, l) == \E i \in 1..Len(l) : l[i] = x

\* list.remove(x): drops the first occurrence
ListRemove(l, x) ==
    LET i == CHOOSE j \in 1..Len(l) : l[j] = x /\ \A k \in 1..(j - 1) : l[k] # x
    IN  SubSeq(l, 1, i - 1) \o SubSeq(l, i + 1, Len(l))

\* list.sort() on a list of str
RECURSIVE InsertSorted(_, _)
InsertSorted(l, x) ==
    IF Len(l) = 0 THEN <<x>>
    ELSE IF StrLt(x, l[1]) THEN <<x>> \o l
    ELSE <<l[1]>> \o InsertSorted(Tail(l), x)

RECURSIVE ListSort(_)
ListSort(l) ==
    IF Len(l) = 0 THEN <<>>
    ELSE InsertSorted(ListSort(SubSeq(l, 1, Len(l) - 1)), l[Len(l)])

----------------------------------------------------------------------------
(* Persistence: salvar_dados and carregar_dados *)

\* no dados_sistema.json
ArquivoAusente == [existe |-> FALSE, json_ok |-> FALSE, dados |-> <<>>]

\* a file whose text is not a JSON document
ArquivoIlegivel == [existe |-> TRUE, json_ok |-> FALSE, dados |-> <<>>]

\* salvar_dados as it would be if the dict left out next_lanc_id
Serializar_SemContador(m) ==
    [contas_dre |-> m.contas_dre, lancamentos |-> m.lancamentos,
     bancos |-> m.bancos, categorias |-> m.categorias,
     next_conta_dre_id |-> m.next_conta_dre_id]

\* salvar_dados as it would be if the dict left out the bank list
Serializar_SemBancos(m) ==
    [contas_dre |-> m.contas_dre, lancamentos |-> m.lancamentos,
     categorias |-> m.categorias,
     next_conta_dre_id |-> m.next_conta_dre_id,
     next_lanc_id |-> m.next_lanc_id]

\* the dict salvar_dados builds (asdict keeps every field under its name)
Serializar(m) ==
    [contas_dre |-> m.contas_dre, lancamentos |-> m.lancamentos,
     bancos |-> m.bancos, categorias |-> m.categorias,
     next_conta_dre_id |-> m.next_conta_dre_id,
     next_lanc_id |-> m.next_lanc_id]

\* outcomes of the write in salvar_dados: written; open() raised (the file is
\* untouched); the write raised after open() truncated the file
Escritas == {"ok", "erro_abrir", "erro_escrita"}

\* salvar_dados as it would be if it wrote a temporary file and renamed it
\* over dados_sistema.json: a failure at any point leaves the file as it was
salvar_dados_Atomico(arq, m, w) ==
    IF w = "ok" THEN [existe |-> TRUE, json_ok |-> TRUE, dados |-> Serializar(m)]
    ELSE arq

salvar_dados(arq, m, w) ==
    IF w = "ok" THEN [existe |-> TRUE, json_ok |-> TRUE, dados |-> Serializar(m)]
    ELSE IF w = "erro_abrir" THEN arq
    ELSE ArquivoIlegivel

\* dict.get(key, default)
DictGet(d, k, default) == IF k \in DOMAIN d THEN d[k] ELSE default

\* ContaDRE(**conta_data) raises TypeError on a missing or unexpected key
ContaDREAceita(v, d) ==
    /\ DOMAIN d \subseteq ContaDREFields(v)
    /\ {"id", "nome", "dre_field"} \subseteq DOMAIN d

ContaDREFromDict(v, d) ==
    ContaDRE(v, d.id, d.nome, d.dre_field, DictGet(d, "tipo", "receita"),
             DictGet(d, "percentual", 0))

\* Lancamento(**lanc_data), after the categoria_texto back-fill
LancamentoAceita(d) ==
    /\ DOMAIN d \subseteq LancamentoFields
    /\ (LancamentoFields \ {"categoria_texto"}) \subseteq DOMAIN d

LancamentoFromDict(d) ==
    Lancamento(d.id, d.tipo, d.data_vencimento, d.entidade, d.descricao,
               d.valor, d.status, d.data_baixa, d.conta_banco, d.conta_dre_id,
               DictGet(d, "categoria_texto", EmptyStr))

\* the dicts rebuilt before the first one the constructor rejects
RECURSIVE ContasAceitas(_, _)
ContasAceitas(v, l) ==
    IF Len(l) = 0 \/ ~ContaDREAceita(v, l[1]) THEN <<>>
    ELSE <<l[1]>> \o ContasAceitas(v, Tail(l))

RECURSIVE LancamentosAceitos(_)
LancamentosAceitos(l) ==
    IF Len(l) = 0 \/ ~LancamentoAceita(l[1]) THEN <<>>
    ELSE <<l[1]>> \o LancamentosAceitos(Tail(l))

\* the try block of carregar_dados on an existing file: the fields of the
\* Sistema when the block ends, and whether it ended by an exception
CarregarTry(v, arq, m) ==
    IF ~arq.json_ok THEN [erro |-> TRUE, mem |-> m]
    ELSE
    LET dados == arq.dados
        cd    == DictGet(dados, "contas_dre", <<>>)
        cOk   == ContasAceitas(v, cd)
        m1    == [m EXCEPT !.contas_dre =
                     [i \in 1..Len(cOk) |-> ContaDREFromDict(v, cOk[i])]]
        ld    == DictGet(dados, "lancamentos", <<>>)
        lOk   == LancamentosAceitos(ld)
        m2    == [m1 EXCEPT !.lancamentos =
                     [i \in 1..Len(lOk) |-> LancamentoFromDict(lOk[i])]]
        m3    == [m2 EXCEPT
                     !.bancos = DictGet(dados, "bancos", <<>>),
                     !.categorias = DictGet(dados, "categorias", <<>>),
                     !.next_conta_dre_id = DictGet(dados, "next_conta_dre_id", 1),
                     !.next_lanc_id = DictGet(dados, "next_lanc_id", 1)]
    IN  IF Len(cOk) < Len(cd) THEN [erro |-> TRUE, mem |-> m1]
        ELSE IF Len(lOk) < Len(ld) THEN [erro |-> TRUE, mem |-> m2]
        ELSE [erro |-> FALSE, mem |-> m3]

\* the except block as it would be if it did not reset contas_dre
CarregarExcept_Parcial(m) ==
    [contas_dre |-> m.contas_dre, lancamentos |-> <<>>, bancos |-> <<>>,
     categorias |-> <<>>, next_conta_dre_id |-> 1, next_lanc_id |-> 1]

\* the except block of carregar_dados
CarregarExcept(m) ==
    [contas_dre |-> <<>>, lancamentos |-> <<>>, bancos |-> <<>>,
     categorias |-> <<>>, next_conta_dre_id |-> 1, next_lanc_id |-> 1]

carregar_dados(v, arq, m) ==
    IF ~arq.existe THEN m
    ELSE LET r == CarregarTry(v, arq, m)
         IN  IF r.erro THEN CarregarExcept(r.mem) ELSE r.mem

----------------------------------------------------------------------------
(* The operations of Sistema, as functions of the fields m of the Sistema.  *)
(* Each yields the fields after the call, the value returned ("ValueError"  *)
(* when the call raises it) and whether the call reached salvar_dados.      *)

Resultado(m, r, s) == [mem |-> m, ret |-> r, salva |-> s]

\* ------- bancos and categorias
adicionar_banco(m, banco) ==
    IF StrTruthy(banco) /\ StrTruthy(strip(banco)) /\ ~InList(banco, m.bancos)
    THEN Resultado([m EXCEPT !.bancos = ListSort(Append(@, strip(banco)))],
                   "True", TRUE)
    ELSE Resultado(m, "False", FALSE)

remover_banco(m, banco) ==
    IF InList(banco, m.bancos)
    THEN Resultado([m EXCEPT !.bancos = ListRemove(@, banco)], "True", TRUE)
    ELSE Resultado(m, "False", FALSE)

adicionar_categoria(m, categoria) ==
    IF StrTruthy(categoria) /\ StrTruthy(strip(categoria))
       /\ ~InList(categoria, m.categorias)
    THEN Resultado([m EXCEPT !.categorias = ListSort(Append(@, strip(categoria)))],
                   "True", TRUE)
    ELSE Resultado(m, "False", FALSE)

\* remover_categoria as it would be without its call of salvar_dados
remover_categoria_SemSalvar(m, categoria) ==
    IF InList(categoria, m.categorias)
    THEN Resultado([m EXCEPT !.categorias = ListRemove(@, categoria)], "True", FALSE)
    ELSE Resultado(m, "False", FALSE)

remover_categoria(m, categoria) ==
    IF InList(categoria, m.categorias)
    THEN Resultado([m EXCEPT !.categorias = ListRemove(@, categoria)], "True", TRUE)
    ELSE Resultado(m, "False", FALSE)

\* ------- App._acao_excluir_banco and App._acao_excluir_categoria: sel is
\* the index selected in the listbox (0: none), confirma the answer to
\* askyesno.  The returned text is the dialog the handler ends with.
EmUsoBanco(m, banco) ==
    \E i \in 1..Len(m.lancamentos) : m.lancamentos[i].conta_banco = banco

EmUsoCategoria(m, categoria) ==
    \E i \in 1..Len(m.lancamentos) : m.lancamentos[i].categoria_texto = categoria

acao_excluir_banco(m, sel, confirma) ==
    IF sel = 0 THEN Resultado(m, "showinfo: selecione", FALSE)
    ELSE IF EmUsoBanco(m, m.bancos[sel]) THEN Resultado(m, "showerror: em uso", FALSE)
    ELSE IF ~confirma THEN Resultado(m, "None", FALSE)
    ELSE LET r == remover_banco(m, m.bancos[sel])
         IN  Resultado(r.mem, IF r.ret = "True" THEN "showinfo: sucesso"
                              ELSE "showerror: erro", r.salva)

acao_excluir_categoria(m, sel, confirma) ==
    IF sel = 0 THEN Resultado(m, "showinfo: selecione", FALSE)
    ELSE IF EmUsoCategoria(m, m.categorias[sel])
    THEN Resultado(m, "showerror: em uso", FALSE)
    ELSE IF ~confirma THEN Resultado(m, "None", FALSE)
    ELSE LET r == remover_categoria(m, m.categorias[sel])
         IN  Resultado(r.mem, IF r.ret = "True" THEN "showinfo: sucesso"
                              ELSE "showerror: erro", r.salva)

\* ------- contas DRE
adicionar_conta_dre(v, m, nome, dre_field, tipo, percentual) ==
    LET c == ContaDRE(v, m.next_conta_dre_id, nome, dre_field, tipo, percentual)
    IN  Resultado([m EXCEPT !.contas_dre = Append(@, c),
                            !.next_conta_dre_id = @ + 1],
                  "ContaDRE", TRUE)

\* get_conta_dre: the position of the first account with this id, 0 for None
\* get_conta_dre as it would be if an unknown id gave the first account
get_conta_dre_Primeira(m, conta_id) ==
    IF \E i \in 1..Len(m.contas_dre) : m.contas_dre[i].id = conta_id
    THEN CHOOSE i \in 1..Len(m.contas_dre) :
            /\ m.contas_dre[i].id = conta_id
            /\ \A j \in 1..(i - 1) : m.contas_dre[j].id # conta_id
    ELSE 1

get_conta_dre(m, conta_id) ==
    IF \E i \in 1..Len(m.contas_dre) : m.contas_dre[i].id = conta_id
    THEN CHOOSE i \in 1..Len(m.contas_dre) :
            /\ m.contas_dre[i].id = conta_id
            /\ \A j \in 1..(i - 1) : m.contas_dre[j].id # conta_id
    ELSE 0

atualizar_conta_dre(v, m, conta_id, novo_nome, novo_dre_field, novo_tipo, novo_percentual) ==
    LET i == get_conta_dre(m, conta_id)
    IN  IF i = 0 THEN Resultado(m, "False", FALSE)
        ELSE Resultado(
               [m EXCEPT !.contas_dre[i] =
                   ContaDRE(v, @.id, novo_nome, novo_dre_field, novo_tipo,
                            novo_percentual)],
               "True", TRUE)

\* remover_conta_dre as it would be without the loop over the entries
remover_conta_dre_SemGuarda(m, conta_id) ==
    Resultado([m EXCEPT !.contas_dre = SelectSeq(@, LAMBDA c : c.id # conta_id)],
              "True", TRUE)

\* remover_conta_dre as it would be if it answered False for an id no
\* account has, the way remover_lancamento does
remover_conta_dre_ExigeConta(m, conta_id) ==
    IF \/ \E i \in 1..Len(m.lancamentos) : m.lancamentos[i].conta_dre_id = conta_id
       \/ ~\E i \in 1..Len(m.contas_dre) : m.contas_dre[i].id = conta_id
    THEN Resultado(m, "False", FALSE)
    ELSE Resultado([m EXCEPT !.contas_dre =
                       SelectSeq(@, LAMBDA c : c.id # conta_id)],
                   "True", TRUE)

remover_conta_dre(m, conta_id) ==
    IF \E i \in 1..Len(m.lancamentos) : m.lancamentos[i].conta_dre_id = conta_id
    THEN Resultado(m, "False", FALSE)
    ELSE Resultado([m EXCEPT !.contas_dre =
                       SelectSeq(@, LAMBDA c : c.id # conta_id)],
                   "True", TRUE)

\* ------- lancamentos
\* An amount argument is a number (str = FALSE, n in cents) or a text
\* (str = TRUE, s its characters).
ValorNum(n) == [str |-> FALSE, n |-> n, s |-> <<>>]

ValorTxt(s) == [str |-> TRUE, n |-> 0, s |-> s]

ValorConvertivel(a) == ~a.str \/ IsFloatStr(ValorStr(a.s))

ConverterValor(a) == IF a.str THEN float(ValorStr(a.s)) ELSE a.n

\* the settlement-date check of drefluxo.py; dre.py has none
BaixaRejeitada(v, status, data_baixa) ==
    /\ v = "drefluxo"
    /\ \/ status = "Pendente" /\ StrTruthy(data_baixa)
       \/ status \in {"Recebido", "Pago"} /\ ~StrTruthy(data_baixa)

\* adicionar_lancamento as it would be if the id were the length of the list
\* plus one
adicionar_lancamento_IdPorTamanho(v, m, a) ==
    IF BaixaRejeitada(v, a.status, a.data_baixa) THEN Resultado(m, "None", FALSE)
    ELSE IF ~ValorConvertivel(a.valor) THEN Resultado(m, "ValueError", FALSE)
    ELSE LET l == Lancamento(Len(m.lancamentos) + 1, a.tipo, a.data_vencimento,
                             a.entidade, a.descricao, ConverterValor(a.valor),
                             a.status, a.data_baixa, a.conta_banco,
                             a.conta_dre_id, a.categoria_texto)
         IN  Resultado([m EXCEPT !.lancamentos = Append(@, l),
                                 !.next_lanc_id = @ + 1],
                       "Lancamento", TRUE)

adicionar_lancamento(v, m, a) ==
    IF BaixaRejeitada(v, a.status, a.data_baixa) THEN Resultado(m, "None", FALSE)
    ELSE IF ~ValorConvertivel(a.valor) THEN Resultado(m, "ValueError", FALSE)
    ELSE LET l == Lancamento(m.next_lanc_id, a.tipo, a.data_vencimento,
                             a.entidade, a.descricao, ConverterValor(a.valor),
                             a.status, a.data_baixa, a.conta_banco,
                             a.conta_dre_id, a.categoria_texto)
         IN  Resultado([m EXCEPT !.lancamentos = Append(@, l),
                                 !.next_lanc_id = @ + 1],
                       "Lancamento", TRUE)

\* kwargs is the sequence of the keyword arguments, in the caller's order
KwHas(kwargs, k) == \E i \in 1..Len(kwargs) : kwargs[i].k = k

KwGet(kwargs, k) == kwargs[CHOOSE i \in 1..Len(kwargs) : kwargs[i].k = k].v

\* the setattr loop: the entry when the loop ends, and whether float() raised
RECURSIVE SetAttrs(_, _)
SetAttrs(l, kwargs) ==
    IF Len(kwargs) = 0 THEN [l |-> l, erro |-> FALSE]
    ELSE LET k == kwargs[1].k
             x == kwargs[1].v
         IN  IF k \notin LancamentoFields THEN SetAttrs(l, Tail(kwargs))
             ELSE IF k = "valor"
             THEN (IF ~ValorConvertivel(x) THEN [l |-> l, erro |-> TRUE]
                   ELSE SetAttrs([l EXCEPT !.valor = ConverterValor(x)],
                                 Tail(kwargs)))
             ELSE SetAttrs([l EXCEPT ![k] = x], Tail(kwargs))

\* atualizar_lancamento of drefluxo.py as it would be without the check of
\* status against data_baixa, which is how dre.py has it
atualizar_lancamento_SemValidacao(v, m, lanc_id, kwargs) ==
    IF \A i \in 1..Len(m.lancamentos) : m.lancamentos[i].id # lanc_id
    THEN Resultado(m, "False", FALSE)
    ELSE LET i == CHOOSE j \in 1..Len(m.lancamentos) :
                     /\ m.lancamentos[j].id = lanc_id
                     /\ \A h \in 1..(j - 1) : m.lancamentos[h].id # lanc_id
             r == SetAttrs(m.lancamentos[i], kwargs)
             m2 == [m EXCEPT !.lancamentos[i] = r.l]
         IN  IF r.erro THEN Resultado(m2, "ValueError", FALSE)
             ELSE Resultado(m2, "True", TRUE)

atualizar_lancamento(v, m, lanc_id, kwargs) ==
    IF /\ v = "drefluxo"
       /\ KwHas(kwargs, "status") /\ KwHas(kwargs, "data_baixa")
       /\ BaixaRejeitada(v, KwGet(kwargs, "status"), KwGet(kwargs, "data_baixa"))
    THEN Resultado(m, "False", FALSE)
    ELSE IF \A i \in 1..Len(m.lancamentos) : m.lancamentos[i].id # lanc_id
    THEN Resultado(m, "False", FALSE)
    ELSE LET i == CHOOSE j \in 1..Len(m.lancamentos) :
                     /\ m.lancamentos[j].id = lanc_id
                     /\ \A h \in 1..(j - 1) : m.lancamentos[h].id # lanc_id
             r == SetAttrs(m.lancamentos[i], kwargs)
             m2 == [m EXCEPT !.lancamentos[i] = r.l]
         IN  IF r.erro THEN Resultado(m2, "ValueError", FALSE)
             ELSE Resultado(m2, "True", TRUE)

remover_lancamento(m, lanc_id) ==
    LET resto == SelectSeq(m.lancamentos, LAMBDA l : l.id # lanc_id)
    IN  IF Len(resto) < Len(m.lancamentos)
        THEN Resultado([m EXCEPT !.lancamentos = resto], "True", TRUE)
        ELSE Resultado([m EXCEPT !.lancamentos = resto], "False", FALSE)

\* ------- construction
\* the list padrao of carregar_contas_dre_padrao; the percentages are those
\* of dre.py (ContaDRE drops them for drefluxo.py)
padrao ==
    << <<"Venda de Mercadoria", "receita_bruta", "receita", 0>>,
       <<"Impostos sobre Vendas", "impostos", "despesa", 5>>,
       <<"Compra de Mercadoria", "custo", "despesa", 0>>,
       <<"Despesas Administrativas", "despesas_administrativas", "despesa", 10>>,
       <<"Distribuicao de Lucro", "distribuicao_lucro", "despesa", 0>>,
       <<"Investimento", "investimento", "outro", 0>>,
       <<"Emprestimos", "emprestimos", "outro", 0>> >>

RECURSIVE AdicionarContas(_, _, _)
AdicionarContas(v, m, lista) ==
    IF Len(lista) = 0 THEN m
    ELSE AdicionarContas(v,
             adicionar_conta_dre(v, m, lista[1][1], lista[1][2], lista[1][3],
                                 lista[1][4]).mem,
             Tail(lista))

carregar_contas_dre_padrao(v, m) == AdicionarContas(v, m, padrao)

\* Sistema() as it would be if the seeding appended the default accounts
\* without going through adicionar_conta_dre and its salvar_dados
Sistema_SemGravar(v, arq, w) ==
    LET m1 == carregar_dados(v, arq, SistemaVazio)
    IN  IF Len(m1.contas_dre) = 0
        THEN [mem |-> carregar_contas_dre_padrao(v, m1), arquivo |-> arq]
        ELSE [mem |-> m1, arquivo |-> arq]

\* Sistema(): the fields of the new Sistema and the file it leaves; w is the
\* outcome of the writes made while seeding
Sistema(v, arq, w) ==
    LET m1 == carregar_dados(v, arq, SistemaVazio)
    IN  IF Len(m1.contas_dre) = 0
        THEN LET m2 == carregar_contas_dre_padrao(v, m1)
             IN  [mem |-> m2, arquivo |-> salvar_dados(arq, m2, w)]
        ELSE [mem |-> m1, arquivo |-> arq]

----------------------------------------------------------------------------
(* calcular_dre *)

\* the initial dre_vals
DreZero ==
    [receita_bruta |-> 0, impostos |-> 0, receita_liquida |-> 0, custo |-> 0,
     lucro_bruto |-> 0, despesas_administrativas |-> 0,
     resultado_operacional |-> 0, investimento |-> 0, emprestimos |-> 0,
     distribuicao_lucro |-> 0, resultado_periodo |-> 0]

DreFields == DOMAIN DreZero

\* usar_filtro_data as it would be if one bound were enough
UsarFiltroData_UmLimite(data_inicio, data_fim) ==
    /\ StrTruthy(data_inicio) \/ StrTruthy(data_fim)
    /\ StrTruthy(data_inicio) => strptime(data_inicio) # ValueError
    /\ StrTruthy(data_fim) => strptime(data_fim) # ValueError

\* usar_filtro_data as it would be if a bound that does not parse left the
\* filter on
UsarFiltroData_SemParse(data_inicio, data_fim) ==
    StrTruthy(data_inicio) /\ StrTruthy(data_fim)

\* usar_filtro_data after the try block; a bound that is None or "" is <<>>
UsarFiltroData(data_inicio, data_fim) ==
    /\ StrTruthy(data_inicio) /\ StrTruthy(data_fim)
    /\ strptime(data_inicio) # ValueError
    /\ strptime(data_fim) # ValueError

\* the status test as it would be if every status passed
StatusBaixado_Todos(l) == TRUE

\* the status test of the loop
StatusBaixado(l) == l.status \in {"Recebido", "Pago"}

\* the date test as it would be with "and" between the two comparisons
DentroDoPeriodo_E(l, data_inicio, data_fim) ==
    /\ StrTruthy(l.data_baixa)
    /\ strptime(l.data_baixa) # ValueError
    /\ ~(strptime(l.data_baixa) < strptime(data_inicio)
         /\ strptime(l.data_baixa) > strptime(data_fim))

\* the date test as it would be with the two ends excluded
DentroDoPeriodo_Exclusivo(l, data_inicio, data_fim) ==
    /\ StrTruthy(l.data_baixa)
    /\ strptime(l.data_baixa) # ValueError
    /\ ~(strptime(l.data_baixa) <= strptime(data_inicio)
         \/ strptime(l.data_baixa) >= strptime(data_fim))

\* the date test of the loop, when the filter is active
DentroDoPeriodo(l, data_inicio, data_fim) ==
    /\ StrTruthy(l.data_baixa)
    /\ strptime(l.data_baixa) # ValueError
    /\ ~(strptime(l.data_baixa) < strptime(data_inicio)
         \/ strptime(l.data_baixa) > strptime(data_fim))

\* the entry passes every "continue" before the account lookup
Considerado(l, data_inicio, data_fim) ==
    /\ StatusBaixado(l)
    /\ UsarFiltroData(data_inicio, data_fim)
          => DentroDoPeriodo(l, data_inicio, data_fim)

\* the test as it would be if dre.py summed every field, as drefluxo.py does
AcumulaDireto_Todos(v, campo) == campo \in DreFields

\* dre.py keeps impostos and despesas_administrativas out of the direct sums
AcumulaDireto(v, campo) ==
    /\ campo \in DreFields
    /\ v = "dre" => campo \notin {"impostos", "despesas_administrativas"}

\* one iteration of the loop as it would be if a payable were subtracted
AcumularLancamento_PorSentido(v, m, d, l, data_inicio, data_fim) ==
    IF ~Considerado(l, data_inicio, data_fim) THEN d
    ELSE LET i == IF Truthy(l.conta_dre_id)
                  THEN get_conta_dre(m, l.conta_dre_id) ELSE 0
         IN  IF i = 0 THEN d
             ELSE LET campo == m.contas_dre[i].dre_field
                  IN  IF AcumulaDireto(v, campo)
                      THEN [d EXCEPT ![campo] =
                               IF l.tipo = "pagar" THEN @ - l.valor ELSE @ + l.valor]
                      ELSE d

\* one iteration of the loop over self.lancamentos
AcumularLancamento(v, m, d, l, data_inicio, data_fim) ==
    IF ~Considerado(l, data_inicio, data_fim) THEN d
    ELSE LET i == IF Truthy(l.conta_dre_id)
                  THEN get_conta_dre(m, l.conta_dre_id) ELSE 0
         IN  IF i = 0 THEN d
             ELSE LET campo == m.contas_dre[i].dre_field
                  IN  IF AcumulaDireto(v, campo)
                      THEN [d EXCEPT ![campo] = @ + l.valor]
                      ELSE d

RECURSIVE AcumularLancamentos(_, _, _, _, _, _)
AcumularLancamentos(v, m, d, ls, data_inicio, data_fim) ==
    IF Len(ls) = 0 THEN d
    ELSE AcumularLancamentos(v, m,
             AcumularLancamento(v, m, d, ls[1], data_inicio, data_fim),
             Tail(ls), data_inicio, data_fim)

\* the test of the percentage loop as it would be without "percentual > 0"
AplicaPercentual_SemSinal(c) ==
    c.dre_field \in {"impostos", "despesas_administrativas"}

\* one iteration of the percentage loop of dre.py
AplicaPercentual(c) ==
    /\ c.dre_field \in {"impostos", "despesas_administrativas"}
    /\ c.percentual > 0

ValorPercentual(d, c) == (d.receita_bruta * c.percentual) \div 100

RECURSIVE AcumularPercentuais(_, _)
AcumularPercentuais(d, cs) ==
    IF Len(cs) = 0 THEN d
    ELSE AcumularPercentuais(
             IF AplicaPercentual(cs[1])
             THEN [d EXCEPT ![cs[1].dre_field] = @ + ValorPercentual(d, cs[1])]
             ELSE d,
             Tail(cs))

\* the derived fields as they would be if lucro_bruto started from
\* receita_bruta
Derivados_SemImpostos(d) ==
    LET d1 == [d  EXCEPT !.receita_liquida = d.receita_bruta - d.impostos]
        d2 == [d1 EXCEPT !.lucro_bruto = d1.receita_bruta - d1.custo]
        d3 == [d2 EXCEPT !.resultado_operacional =
                            d2.lucro_bruto - d2.despesas_administrativas]
    IN  [d3 EXCEPT !.resultado_periodo =
                      d3.resultado_operacional - d3.distribuicao_lucro]

\* the derived fields as they would be if investimento and emprestimos were
\* taken out of resultado_periodo
Derivados_ComInvestimento(d) ==
    LET d1 == [d  EXCEPT !.receita_liquida = d.receita_bruta - d.impostos]
        d2 == [d1 EXCEPT !.lucro_bruto = d1.receita_liquida - d1.custo]
        d3 == [d2 EXCEPT !.resultado_operacional =
                            d2.lucro_bruto - d2.despesas_administrativas]
    IN  [d3 EXCEPT !.resultado_periodo =
                      d3.resultado_operacional - d3.distribuicao_lucro
                      - d3.investimento - d3.emprestimos]

\* the four derived fields, assigned in this order
Derivados(d) ==
    LET d1 == [d  EXCEPT !.receita_liquida = d.receita_bruta - d.impostos]
        d2 == [d1 EXCEPT !.lucro_bruto = d1.receita_liquida - d1.custo]
        d3 == [d2 EXCEPT !.resultado_operacional =
                            d2.lucro_bruto - d2.despesas_administrativas]
    IN  [d3 EXCEPT !.resultado_periodo =
                      d3.resultado_operacional - d3.distribuicao_lucro]

calcular_dre(v, m, data_inicio, data_fim) ==
    LET d1 == AcumularLancamentos(v, m, DreZero, m.lancamentos,
                                  data_inicio, data_fim)
        d2 == IF v = "dre" THEN AcumularPercentuais(d1, m.contas_dre) ELSE d1
    IN  Derivados(d2)

----------------------------------------------------------------------------
(* App.atualizar_fluxo_caixa_view of drefluxo.py: the rows inserted in the  *)
(* tree and the two totals.  Amounts are kept as numbers; their display     *)
(* formatting is not modelled.                                              *)

Todas == <<84, 111, 100, 97, 115>>

Todos == <<84, 111, 100, 111, 115>>

FluxoVazio == [rows |-> <<>>, total_entradas |-> 0, total_saidas |-> 0]

\* the sort key: data_baixa when present, else data_vencimento
DataLancamento(l) == IF StrTruthy(l.data_baixa) THEN l.data_baixa
                     ELSE l.data_vencimento

\* sorted(..., key=...): stable, keys compared as strings
RECURSIVE InsertByKey(_, _)
InsertByKey(ls, x) ==
    IF Len(ls) = 0 THEN <<x>>
    ELSE IF StrLt(DataLancamento(x), DataLancamento(ls[Len(ls)]))
    THEN InsertByKey(SubSeq(ls, 1, Len(ls) - 1), x) \o <<ls[Len(ls)]>>
    ELSE ls \o <<x>>

RECURSIVE SortedByKey(_)
SortedByKey(ls) ==
    IF Len(ls) = 0 THEN <<>>
    ELSE InsertByKey(SortedByKey(SubSeq(ls, 1, Len(ls) - 1)), ls[Len(ls)])

\* the filters of the loop: TRUE when the entry is skipped
FluxoFiltrado(l, data_inicio, data_fim, categoria_filtro, banco_filtro) ==
    \/ categoria_filtro # Todas /\ l.categoria_texto # categoria_filtro
    \/ banco_filtro # Todos /\ l.conta_banco # banco_filtro
    \/ /\ StrTruthy(data_inicio) /\ StrTruthy(data_fim)
       /\ \/ strptime(DataLancamento(l)) = ValueError
          \/ strptime(DataLancamento(l)) < strptime(data_inicio)
          \/ strptime(DataLancamento(l)) > strptime(data_fim)

\* one iteration of the loop as it would be if the balance of a row were the
\* row's own inflow minus outflow
FluxoLancamento_SaldoDaLinha(f, l, data_inicio, data_fim, categoria_filtro, banco_filtro) ==
    LET entrada == IF l.tipo = "receber" /\ l.status = "Recebido" THEN l.valor ELSE 0
        saida   == IF l.tipo = "pagar" /\ l.status = "Pago" THEN l.valor ELSE 0
    IN  IF FluxoFiltrado(l, data_inicio, data_fim, categoria_filtro, banco_filtro)
        THEN f
        ELSE IF ~(l.tipo = "receber" /\ l.status = "Recebido")
                /\ ~(l.tipo = "pagar" /\ l.status = "Pago")
        THEN f
        ELSE [rows |-> Append(f.rows,
                  [data |-> DataLancamento(l), descricao |-> l.descricao,
                   tipo |-> IF l.tipo = "receber" THEN "Receita" ELSE "Despesa",
                   categoria |-> l.categoria_texto, banco |-> l.conta_banco,
                   entrada |-> entrada, saida |-> saida,
                   saldo |-> entrada - saida]),
              total_entradas |-> f.total_entradas + entrada,
              total_saidas |-> f.total_saidas + saida]

\* one iteration of the loop; f carries rows and totals, the balance is the
\* saldo of the last row
FluxoLancamento(f, l, data_inicio, data_fim, categoria_filtro, banco_filtro) ==
    LET saldo_atual == IF Len(f.rows) = 0 THEN 0 ELSE f.rows[Len(f.rows)].saldo
        entrada == IF l.tipo = "receber" /\ l.status = "Recebido" THEN l.valor ELSE 0
        saida   == IF l.tipo = "pagar" /\ l.status = "Pago" THEN l.valor ELSE 0
    IN  IF FluxoFiltrado(l, data_inicio, data_fim, categoria_filtro, banco_filtro)
        THEN f
        ELSE IF ~(l.tipo = "receber" /\ l.status = "Recebido")
                /\ ~(l.tipo = "pagar" /\ l.status = "Pago")
        THEN f
        ELSE [rows |-> Append(f.rows,
                  [data |-> DataLancamento(l), descricao |-> l.descricao,
                   tipo |-> IF l.tipo = "receber" THEN "Receita" ELSE "Despesa",
                   categoria |-> l.categoria_texto, banco |-> l.conta_banco,
                   entrada |-> entrada, saida |-> saida,
                   saldo |-> saldo_atual + entrada - saida]),
              total_entradas |-> f.total_entradas + entrada,
              total_saidas |-> f.total_saidas + saida]

RECURSIVE FluxoLoop(_, _, _, _, _, _)
FluxoLoop(f, ls, data_inicio, data_fim, categoria_filtro, banco_filtro) ==
    IF Len(ls) = 0 THEN f
    ELSE FluxoLoop(
             FluxoLancamento(f, ls[1], data_inicio, data_fim,
                             categoria_filtro, banco_filtro),
             Tail(ls), data_inicio, data_fim, categoria_filtro, banco_filtro)

\* prev is what the view showed before: an unparseable bound empties the
\* tree and returns before the totals are touched
atualizar_fluxo_caixa_view(m, prev, data_inicio, data_fim, categoria_filtro, banco_filtro) ==
    LET di == strip(data_inicio)
        df == strip(data_fim)
    IN  IF \/ StrTruthy(di) /\ strptime(di) = ValueError
           \/ StrTruthy(df) /\ strptime(df) = ValueError
        THEN [prev EXCEPT !.rows = <<>>]
        ELSE FluxoLoop(FluxoVazio, SortedByKey(m.lancamentos), di, df,
                       categoria_filtro, banco_filtro)

----------------------------------------------------------------------------
(* Arguments explored *)

Data1 == <<49, 53, 47, 48, 49, 47, 50, 48, 50, 52>>    \* "15/01/2024"

Data2 == <<50, 48, 47, 49, 50, 47, 50, 48, 50, 51>>    \* "20/12/2023"

Data3 == <<48, 53, 47, 48, 50, 47, 50, 48, 50, 52>>    \* "05/02/2024"

DataRuim == <<51, 49, 47, 48, 50, 47, 50, 48, 50, 52>> \* "31/02/2024"

Data4 == <<50, 53, 47, 48, 50, 47, 50, 48, 50, 52>>    \* "25/02/2024"

BancoBB == <<66, 66>>                                  \* "BB"

CategoriaSal == <<83, 97, 108>>                        \* "Sal"

\* arguments of adicionar_banco and remover_banco: "BB", " BB ", "A", " "
\* and ""
BancoArgs == { BancoBB, <<32, 66, 66, 32>>, <<65>>, <<32>>, EmptyStr }

\* arguments of adicionar_categoria and remover_categoria: "Sal", "Sal "
\* and "Agua"
CategoriaArgs == { CategoriaSal, <<83, 97, 108, 32>>, <<65, 103, 117, 97>> }

MilReais == <<49, 46, 48, 48, 48, 44, 48, 48>>         \* "1.000,00"

\* (nome, dre_field, tipo, percentual) given to the account operations
ContaISS == <<"ISS", "impostos", "despesa", 10>>

ContaFrete == <<"Frete", "custo", "despesa", 0>>

ContaArgs == {ContaISS}

\* account 1 is the one the explored entries refer to; MaxContaId is the
\* first id given to an added account
ContaIdArgs == {1, MaxContaId}

LancArg(tipo, valor, status, data_baixa, conta_banco, conta_dre_id, categoria) ==
    [tipo |-> tipo, data_vencimento |-> Data3, entidade |-> "",
     descricao |-> "", valor |-> valor, status |-> status,
     data_baixa |-> data_baixa, conta_banco |-> conta_banco,
     conta_dre_id |-> conta_dre_id, categoria_texto |-> categoria]

\* arguments of adicionar_lancamento
LancArgs ==
    { LancArg("receber", ValorTxt(MilReais), st, db, EmptyStr, 1, EmptyStr) :
        st \in {"Pendente", "Recebido"}, db \in {EmptyStr, Data1} }

LancIdArgs == 1..MaxLancId

Kw(k, x) == [k |-> k, v |-> x]

\* keyword arguments of atualizar_lancamento
KwargsArgs ==
    { << Kw("status", "Pago") >>,
      << Kw("status", "Pendente"), Kw("data_baixa", Data1) >>,
      << Kw("data_baixa", EmptyStr), Kw("status", "Pendente") >> }

----------------------------------------------------------------------------
(* Actions: one per operation of the core *)

\* a call on the running Sistema: its fields, the returned value and, when
\* the call reached salvar_dados, the file; w is the outcome of the write,
\* kept with the call as escrita ("nenhuma" when salvar_dados was not reached)
Aplicar(r, w, call) ==
    /\ contas_dre' = r.mem.contas_dre
    /\ lancamentos' = r.mem.lancamentos
    /\ bancos' = r.mem.bancos
    /\ categorias' = r.mem.categorias
    /\ next_conta_dre_id' = r.mem.next_conta_dre_id
    /\ next_lanc_id' = r.mem.next_lanc_id
    /\ arquivo' = IF r.salva THEN salvar_dados(arquivo, r.mem, w) ELSE arquivo
    /\ ret' = r.ret
    /\ chamada' = [x \in DOMAIN call \cup {"escrita"} |->
                      IF x # "escrita" THEN call[x]
                      ELSE IF r.salva THEN w ELSE "nenhuma"]
    /\ UNCHANGED <<variant, dre_vals, fluxo, outra, gravacao>>

AdicionarBanco(banco, w) ==
    Aplicar(adicionar_banco(Mem, banco), w,
            [op |-> "adicionar_banco", arg |-> banco])

RemoverBanco(banco, w) ==
    Aplicar(remover_banco(Mem, banco), w,
            [op |-> "remover_banco", arg |-> banco])

AdicionarCategoria(categoria, w) ==
    Aplicar(adicionar_categoria(Mem, categoria), w,
            [op |-> "adicionar_categoria", arg |-> categoria])

RemoverCategoria(categoria, w) ==
    Aplicar(remover_categoria(Mem, categoria), w,
            [op |-> "remover_categoria", arg |-> categoria])

AdicionarContaDre(a, w) ==
    /\ next_conta_dre_id <= MaxContaId
    /\ Aplicar(adicionar_conta_dre(variant, Mem, a[1], a[2], a[3], a[4]), w,
               [op |-> "adicionar_conta_dre", arg |-> a])

AtualizarContaDre(conta_id, a, w) ==
    Aplicar(atualizar_conta_dre(variant, Mem, conta_id, a[1], a[2], a[3], a[4]),
            w, [op |-> "atualizar_conta_dre", arg |-> conta_id])

RemoverContaDre(conta_id, w) ==
    Aplicar(remover_conta_dre(Mem, conta_id), w,
            [op |-> "remover_conta_dre", arg |-> conta_id])

AdicionarLancamento(a, w) ==
    /\ next_lanc_id <= MaxLancId
    /\ Aplicar(adicionar_lancamento(variant, Mem, a), w,
               [op |-> "adicionar_lancamento", arg |-> a])

AtualizarLancamento(lanc_id, kwargs, w) ==
    Aplicar(atualizar_lancamento(variant, Mem, lanc_id, kwargs), w,
            [op |-> "atualizar_lancamento", arg |-> lanc_id,
             kwargs |-> kwargs])

RemoverLancamento(lanc_id, w) ==
    Aplicar(remover_lancamento(Mem, lanc_id), w,
            [op |-> "remover_lancamento", arg |-> lanc_id])

AcaoExcluirBanco(sel, confirma, w) ==
    Aplicar(acao_excluir_banco(Mem, sel, confirma), w,
            [op |-> "_acao_excluir_banco",
             arg |-> IF sel = 0 THEN EmptyStr ELSE bancos[sel]])

AcaoExcluirCategoria(sel, confirma, w) ==
    Aplicar(acao_excluir_categoria(Mem, sel, confirma), w,
            [op |-> "_acao_excluir_categoria",
             arg |-> IF sel = 0 THEN EmptyStr ELSE categorias[sel]])

\* the program is started again: Sistema() over the file as it is
Construir(w) ==
    LET r == Sistema(variant, arquivo, w)
    IN  /\ contas_dre' = r.mem.contas_dre
        /\ lancamentos' = r.mem.lancamentos
        /\ bancos' = r.mem.bancos
        /\ categorias' = r.mem.categorias
        /\ next_conta_dre_id' = r.mem.next_conta_dre_id
        /\ next_lanc_id' = r.mem.next_lanc_id
        /\ arquivo' = r.arquivo
        /\ ret' = "Sistema"
        /\ chamada' = [op |-> "Sistema", arg |-> arquivo]
        /\ UNCHANGED <<variant, dre_vals, fluxo, outra, gravacao>>

\* the file is damaged behind the program's back (an interrupted write, an
\* edit by hand): it stops being JSON, or the last dict of a list loses a key
SemChave(d, k) == [x \in DOMAIN d \ {k} |-> d[x]]

Danos == {"ilegivel", "conta", "lancamento"}

Danificar(arq, dano) ==
    IF dano = "ilegivel" THEN ArquivoIlegivel
    ELSE IF dano = "conta"
    THEN [arq EXCEPT !.dados.contas_dre[Len(arq.dados.contas_dre)] =
                         SemChave(@, "nome")]
    ELSE [arq EXCEPT !.dados.lancamentos[Len(arq.dados.lancamentos)] =
                         SemChave(@, "valor")]

DanificarArquivo(dano) ==
    /\ arquivo.existe /\ arquivo.json_ok
    /\ arquivo.dados = Serializar(Mem)
    /\ dano = "conta" => Len(arquivo.dados.contas_dre) > 0
    /\ dano = "lancamento" => Len(arquivo.dados.lancamentos) > 0
    /\ arquivo' = Danificar(arquivo, dano)
    /\ chamada' = [op |-> "danificar", arg |-> dano]
    /\ ret' = "None"
    /\ UNCHANGED <<variant, mem_vars, dre_vals, fluxo, outra, gravacao>>

CalcularDre(data_inicio, data_fim) ==
    /\ dre_vals' = calcular_dre(variant, Mem, data_inicio, data_fim)
    /\ ret' = "dict"
    /\ chamada' = [op |-> "calcular_dre", arg |-> <<data_inicio, data_fim>>]
    /\ UNCHANGED <<variant, mem_vars, arquivo, fluxo, outra, gravacao>>

AtualizarFluxoCaixaView(data_inicio, data_fim, categoria_filtro, banco_filtro) ==
    /\ variant = "drefluxo"
    /\ fluxo' = atualizar_fluxo_caixa_view(Mem, fluxo, data_inicio, data_fim,
                                           categoria_filtro, banco_filtro)
    /\ ret' = "None"
    /\ chamada' = [op |-> "atualizar_fluxo_caixa_view",
                   arg |-> <<data_inicio, data_fim, categoria_filtro,
                             banco_filtro>>,
                   antes |-> fluxo]
    /\ UNCHANGED <<variant, mem_vars, arquivo, dre_vals, outra, gravacao>>

----------------------------------------------------------------------------
(* Spec: the registry and the ledger.  The program starts with no file.    *)

SetMem(m) ==
    /\ contas_dre = m.contas_dre
    /\ lancamentos = m.lancamentos
    /\ bancos = m.bancos
    /\ categorias = m.categorias
    /\ next_conta_dre_id = m.next_conta_dre_id
    /\ next_lanc_id = m.next_lanc_id

Init ==
    /\ variant \in {"dre", "drefluxo"}
    /\ SetMem(Sistema(variant, ArquivoAusente, "ok").mem)
    /\ arquivo = Sistema(variant, ArquivoAusente, "ok").arquivo
    /\ chamada = [op |-> "Sistema", arg |-> ArquivoAusente]
    /\ ret = "Sistema"
    /\ dre_vals = DreZero
    /\ fluxo = FluxoVazio
    /\ outra = SistemaVazio
    /\ gravacao = UmaInstancia

Next ==
    \/ \E a \in ContaArgs : AdicionarContaDre(a, "ok")
    \/ \E i \in ContaIdArgs, a \in ContaArgs : AtualizarContaDre(i, a, "ok")
    \/ \E i \in ContaIdArgs : RemoverContaDre(i, "ok")
    \/ \E a \in LancArgs : AdicionarLancamento(a, "ok")
    \/ \E i \in LancIdArgs, k \in KwargsArgs : AtualizarLancamento(i, k, "ok")
    \/ \E i \in LancIdArgs : RemoverLancamento(i, "ok")

Spec == Init /\ [][Next]_vars

----------------------------------------------------------------------------------------------------------------------------------------
(* SpecArquivo: the four collections, the file, restarts and damage to the  *)
(* file.                                                                    *)

LancArgsArquivo ==
    { LancArg("pagar", ValorTxt(MilReais), "Pago", Data1, BancoBB, None,
              CategoriaSal) }

KwargsArquivo == << Kw("valor", ValorNum(40000)), Kw("conta_banco", EmptyStr) >>

NextArquivo ==
    \/ AdicionarBanco(BancoBB, "ok")
    \/ RemoverBanco(BancoBB, "ok")
    \/ AdicionarCategoria(CategoriaSal, "ok")
    \/ RemoverCategoria(CategoriaSal, "ok")
    \/ \E a \in ContaArgs : AdicionarContaDre(a, "ok")
    \/ AtualizarContaDre(MaxContaId, ContaFrete, "ok")
    \/ RemoverContaDre(MaxContaId, "ok")
    \/ \E a \in LancArgsArquivo : AdicionarLancamento(a, "ok")
    \/ AtualizarLancamento(1, KwargsArquivo, "ok")
    \/ \E i \in LancIdArgs : RemoverLancamento(i, "ok")
    \/ Construir("ok")
    \/ \E d \in Danos : DanificarArquivo(d)

SpecArquivo == Init /\ [][NextArquivo]_vars

----------------------------------------------------------------------------
(* SpecSemente: the seeding of the default accounts.  Accounts are removed  *)
(* from the top of the list, so that the registry can be emptied; a restart *)
(* is explored while the account counter is at most MaxContaId + 1.         *)

NextSemente ==
    \/ AdicionarBanco(BancoBB, "ok")
    \/ \E a \in ContaArgs : AdicionarContaDre(a, "ok")
    \/ Len(contas_dre) > 0 /\ RemoverContaDre(contas_dre[1].id, "ok")
    \/ \E a \in LancArgsArquivo : AdicionarLancamento(a, "ok")
    \/ next_conta_dre_id <= MaxContaId + 1 /\ Construir("ok")

SpecSemente == Init /\ [][NextSemente]_vars

----------------
(* SpecDRE: calcular_dre and the cash-flow view as functions of the store   *)
(* and of their arguments.                                                  *)

\* charts of accounts: the seed; the seed with percentages that add nothing
\* (0 on impostos, negative on despesas_administrativas, positive on custo);
\* the seed plus a second impostos account
Chart(v, n) ==
    LET seed == carregar_contas_dre_padrao(v, SistemaVazio)
    IN  IF n = 1 THEN seed
        ELSE IF n = 2
        THEN atualizar_conta_dre(v,
               atualizar_conta_dre(v,
                 atualizar_conta_dre(v, seed, 2, "Impostos sobre Vendas",
                                     "impostos", "despesa", 0).mem,
                 3, "Compra de Mercadoria", "custo", "despesa", 10).mem,
               4, "Despesas Administrativas", "despesas_administrativas",
               "despesa", -5).mem
        ELSE adicionar_conta_dre(v, seed, ContaISS[1], ContaISS[2],
                                 ContaISS[3], ContaISS[4]).mem

Charts == 1..3

\* the entries of the stores: receipts on account 1, settled or pending, with
\* and without a settlement date; payments on accounts 3 and MaxContaId, with
\* and without one; a receipt on account 3 and a payment on account 1
\* (MaxContaId is the second impostos account of the third chart, and the id
\* of no account in the others)
LancDRE ==
    { Lancamento(0, "receber", Data3, "", "", 100000, st, db, BancoBB, 1, EmptyStr) :
        st \in {"Recebido", "Pendente"}, db \in {EmptyStr, Data1} }
    \cup
    { Lancamento(0, "pagar", Data3, "", "", 40000, "Pago", db, BancoBB, c, EmptyStr) :
        db \in {EmptyStr, Data1}, c \in {3, MaxContaId} }
    \cup
    { Lancamento(0, "receber", Data3, "", "", 100000, "Recebido", Data1, BancoBB, 3, EmptyStr),
      Lancamento(0, "pagar", Data3, "", "", 40000, "Pago", Data1, BancoBB, 1, EmptyStr) }

\* the ledgers: up to MaxLancDRE entries, with the ids adicionar_lancamento
\* gives them
Ledgers ==
    UNION { { [i \in 1..n |-> [f[i] EXCEPT !.id = i]] : f \in [1..n -> LancDRE] } :
            n \in 0..MaxLancDRE }

InitDRE ==
    /\ variant \in {"dre", "drefluxo"}
    /\ \E n \in Charts, ls \in Ledgers :
          SetMem([Chart(variant, n) EXCEPT !.lancamentos = ls,
                                           !.next_lanc_id = Len(ls) + 1])
    /\ arquivo = salvar_dados(ArquivoAusente, Mem, "ok")
    /\ chamada = [op |-> "Sistema", arg |-> arquivo]
    /\ ret = "Sistema"
    /\ dre_vals = DreZero
    /\ fluxo = FluxoVazio
    /\ outra = SistemaVazio
    /\ gravacao = UmaInstancia

PeriodoArgs ==
    { <<EmptyStr, EmptyStr>>, <<Data2, Data1>>, <<Data3, Data3>>,
      <<DataRuim, Data3>> }

FluxoArgs ==
    { <<EmptyStr, EmptyStr, Todas, Todos>>,
      <<Data2, Data1, Todas, BancoBB>>,
      <<Data1, EmptyStr, CategoriaSal, Todos>> }

\* each behaviour makes one call on one store
NextDRE ==
    \/ \E p \in PeriodoArgs :
          chamada.op = "Sistema" /\ CalcularDre(p[1], p[2])
    \/ \E a \in FluxoArgs :
          chamada.op = "Sistema" /\ AtualizarFluxoCaixaView(a[1], a[2], a[3], a[4])

SpecDRE == InitDRE /\ [][NextDRE]_vars

----------------------------------------------------------------------------
(* SpecFluxo: the cash-flow view of drefluxo.py over ledgers built by       *)
(* adicionar_lancamento, with settlement dates in different months and      *)
(* years.                                                                   *)

\* settled receivables of 100,00 and settled payables of 40,00 on three
\* settlement dates, and one pending receivable
LancArgsFluxo ==
    { LancArg(ts[1], ValorNum(ts[3]), ts[2], db, BancoBB, 1, EmptyStr) :
        ts \in { <<"receber", "Recebido", 10000>>, <<"pagar", "Pago", 4000>> },
        db \in {Data1, Data2, Data4} }
    \cup { LancArg("receber", ValorNum(10000), "Pendente", EmptyStr, EmptyStr,
                   1, CategoriaSal) }

InitFluxo ==
    /\ variant = "drefluxo"
    /\ SetMem(Sistema(variant, ArquivoAusente, "ok").mem)
    /\ arquivo = Sistema(variant, ArquivoAusente, "ok").arquivo
    /\ chamada = [op |-> "Sistema", arg |-> ArquivoAusente]
    /\ ret = "Sistema"
    /\ dre_vals = DreZero
    /\ fluxo = FluxoVazio
    /\ outra = SistemaVazio
    /\ gravacao = UmaInstancia

NextFluxo ==
    \/ \E a \in LancArgsFluxo : AdicionarLancamento(a, "ok")
    \/ \E a \in FluxoArgs : AtualizarFluxoCaixaView(a[1], a[2], a[3], a[4])

SpecFluxo == InitFluxo /\ [][NextFluxo]_vars

----------------------------------------------------------------------------
(* SpecBancos: the bank list and the category list, their use by entries,   *)
(* and their deletion through the Sistema and through the handlers of the   *)
(* App.  The lists are explored up to MaxBancos names.                      *)

NextBancos ==
    \/ \E b \in BancoArgs : Len(bancos) < MaxBancos /\ AdicionarBanco(b, "ok")
    \/ \E b \in BancoArgs : RemoverBanco(b, "ok")
    \/ \E c \in CategoriaArgs :
          Len(categorias) < MaxBancos /\ AdicionarCategoria(c, "ok")
    \/ \E c \in CategoriaArgs : RemoverCategoria(c, "ok")
    \/ \E a \in LancArgsArquivo : AdicionarLancamento(a, "ok")
    \/ \E sel \in 0..Len(bancos), confirma \in BOOLEAN :
          AcaoExcluirBanco(sel, confirma, "ok")
    \/ \E sel \in 0..Len(categorias), confirma \in BOOLEAN :
          AcaoExcluirCategoria(sel, confirma, "ok")

SpecBancos == Init /\ [][NextBancos]_vars

----------------------------------------------------------------------------
(* SpecValor: the amount given to adicionar_lancamento and to               *)
(* atualizar_lancamento: texts that float() accepts or refuses, and numbers *)
(* that are positive, zero or negative.                                     *)

\* "abc", "12,50" and "-12,50"
ValorAbc == <<97, 98, 99>>

ValorDoze == <<49, 50, 44, 53, 48>>

ValorMenosDoze == <<45, 49, 50, 44, 53, 48>>

ValorArgs ==
    { ValorTxt(ValorAbc), ValorTxt(ValorDoze), ValorTxt(EmptyStr),
      ValorNum(10000), ValorNum(0), ValorNum(0 - 5000) }

LancArgsValor ==
    { LancArg("receber", x, "Recebido", Data1, EmptyStr, 1, EmptyStr) :
        x \in ValorArgs }

\* an unparseable amount after and before another field, and amounts alone
KwargsValor ==
    << << Kw("conta_banco", BancoBB), Kw("valor", ValorTxt(ValorAbc)) >>,
       << Kw("valor", ValorTxt(ValorAbc)), Kw("conta_banco", BancoBB) >>,
       << Kw("valor", ValorTxt(ValorMenosDoze)) >>,
       << Kw("valor", ValorNum(0)) >>,
       << Kw("valor", ValorNum(2500)) >> >>

NextValor ==
    \/ \E a \in LancArgsValor : AdicionarLancamento(a, "ok")
    \/ \E i \in LancIdArgs, k \in DOMAIN KwargsValor :
          AtualizarLancamento(i, KwargsValor[k], "ok")
    \/ \E i \in LancIdArgs : RemoverLancamento(i, "ok")

SpecValor == Init /\ [][NextValor]_vars

----------------------------------------------------------------------------
(* SpecPeriodo: calcular_dre over the seed chart and ledgers whose entries  *)
(* are settled on the bounds of the period, inside it, outside it, on no    *)
(* date and on a date that does not exist.                                  *)

\* receivable of 500,00 on receita_bruta (account 1) on every settlement
\* date; payable of 100,00 on custo (account 3) inside and after the period,
\* and on receita_bruta on the first day of the period and on a date that
\* does not exist; pending receivable with and without a settlement date
LancPeriodo ==
    { Lancamento(0, "receber", Data3, "", "", 50000, "Recebido", db, EmptyStr,
                 1, EmptyStr) : db \in {EmptyStr, Data1, Data2, Data3, DataRuim} }
    \cup { Lancamento(0, "pagar", Data3, "", "", 10000, "Pago", db, EmptyStr,
                      3, EmptyStr) : db \in {Data1, Data3} }
    \cup { Lancamento(0, "pagar", Data3, "", "", 10000, "Pago", db, EmptyStr,
                      1, EmptyStr) : db \in {Data2, DataRuim} }
    \cup { Lancamento(0, "receber", Data3, "", "", 50000, "Pendente", db, EmptyStr,
                      1, EmptyStr) : db \in {EmptyStr, Data1} }

LedgersPeriodo ==
    UNION { { [i \in 1..n |-> [f[i] EXCEPT !.id = i]] : f \in [1..n -> LancPeriodo] } :
            n \in 0..MaxLancDRE }

InitPeriodo ==
    /\ variant \in {"dre", "drefluxo"}
    /\ \E ls \in LedgersPeriodo :
          SetMem([Chart(variant, 1) EXCEPT !.lancamentos = ls,
                                           !.next_lanc_id = Len(ls) + 1])
    /\ arquivo = salvar_dados(ArquivoAusente, Mem, "ok")
    /\ chamada = [op |-> "Sistema", arg |-> arquivo]
    /\ ret = "Sistema"
    /\ dre_vals = DreZero
    /\ fluxo = FluxoVazio
    /\ outra = SistemaVazio
    /\ gravacao = UmaInstancia

\* no bound; a period from 20/12/2023 to 15/01/2024; the same bounds
\* inverted; one bound only
PeriodoLimites ==
    { <<EmptyStr, EmptyStr>>, <<Data2, Data1>>, <<Data1, Data2>>,
      <<Data2, EmptyStr>> }

NextPeriodo ==
    \E p \in PeriodoLimites : chamada.op = "Sistema" /\ CalcularDre(p[1], p[2])

SpecPeriodo == InitPeriodo /\ [][NextPeriodo]_vars

----------------------------------------------------------------------------
(* SpecCampos: calcular_dre over ledgers whose entries refer to accounts of *)
(* receita_bruta, investimento and emprestimos, to no account and to an id  *)
(* that no account has, with bounds that parse and bounds that do not.      *)

\* an id that no account of the chart has
ContaInexistente == 99

\* settled inside and after the period of 20/12/2023 to 15/01/2024:
\* receivable of 500,00 on account 1, payables of 100,00 on accounts 6
\* (investimento) and 7 (emprestimos), on None and on ContaInexistente
LancCampos ==
    { Lancamento(0, "receber", Data3, "", "", 50000, "Recebido", db, EmptyStr,
                 1, EmptyStr) : db \in {Data1, Data3} }
    \cup { Lancamento(0, "pagar", Data3, "", "", 10000, "Pago", db, EmptyStr,
                      c, EmptyStr) :
             db \in {Data1, Data3}, c \in {6, 7, None, ContaInexistente} }

LedgersCampos ==
    UNION { { [i \in 1..n |-> [f[i] EXCEPT !.id = i]] : f \in [1..n -> LancCampos] } :
            n \in 0..MaxLancDRE }

InitCampos ==
    /\ variant \in {"dre", "drefluxo"}
    /\ \E ls \in LedgersCampos :
          SetMem([Chart(variant, 1) EXCEPT !.lancamentos = ls,
                                           !.next_lanc_id = Len(ls) + 1])
    /\ arquivo = salvar_dados(ArquivoAusente, Mem, "ok")
    /\ chamada = [op |-> "Sistema", arg |-> arquivo]
    /\ ret = "Sistema"
    /\ dre_vals = DreZero
    /\ fluxo = FluxoVazio
    /\ outra = SistemaVazio
    /\ gravacao = UmaInstancia

\* no bound; bounds that parse; a first and a last bound that do not
PeriodoCampos ==
    { <<EmptyStr, EmptyStr>>, <<Data2, Data1>>, <<DataRuim, Data1>>,
      <<Data2, DataRuim>> }

NextCampos ==
    \E p \in PeriodoCampos : chamada.op = "Sistema" /\ CalcularDre(p[1], p[2])

SpecCampos == InitCampos /\ [][NextCampos]_vars

----------------------------------------------------------------------------
(* Properties *)

MutatorOps ==
    {"adicionar_banco", "remover_banco", "adicionar_categoria",
     "remover_categoria", "adicionar_conta_dre", "atualizar_conta_dre",
     "remover_conta_dre", "adicionar_lancamento", "atualizar_lancamento",
     "remover_lancamento"}

\* C1: the mapping returned by calcular_dre satisfies the four subtotal
\* identities: receita_liquida + impostos = receita_bruta, lucro_bruto +
\* custo = receita_liquida, resultado_operacional +
\* despesas_administrativas = lucro_bruto, resultado_periodo +
\* distribuicao_lucro = resultado_operacional.
C1_IdentidadesDosSubtotais ==
    chamada.op = "calcular_dre" =>
        /\ dre_vals.receita_liquida + dre_vals.impostos = dre_vals.receita_bruta
        /\ dre_vals.lucro_bruto + dre_vals.custo = dre_vals.receita_liquida
        /\ dre_vals.resultado_operacional + dre_vals.despesas_administrativas
              = dre_vals.lucro_bruto
        /\ dre_vals.resultado_periodo + dre_vals.distribuicao_lucro
              = dre_vals.resultado_operacional

C1_Witness ==
    /\ chamada.op = "calcular_dre"
    /\ dre_vals.receita_bruta > 0
    /\ dre_vals.impostos > 0
    /\ dre_vals.custo > 0
    /\ dre_vals.despesas_administrativas > 0

\* C2: an entry whose status is Pendente contributes to no output: the
\* result of calcular_dre, and the rows and totals of the cash-flow view,
\* are those of the store with the pending entries removed, for the same
\* arguments.
SemPendentes(m) ==
    [m EXCEPT !.lancamentos = SelectSeq(@, LAMBDA l : l.status # "Pendente")]

C2_PendentesExcluidos ==
    /\ chamada.op = "calcular_dre" =>
          dre_vals = calcular_dre(variant, SemPendentes(Mem),
                                  chamada.arg[1], chamada.arg[2])
    /\ chamada.op = "atualizar_fluxo_caixa_view" =>
          fluxo = atualizar_fluxo_caixa_view(SemPendentes(Mem), chamada.antes,
                      chamada.arg[1], chamada.arg[2], chamada.arg[3],
                      chamada.arg[4])

C2_Witness ==
    /\ chamada.op = "calcular_dre"
    /\ UsarFiltroData(chamada.arg[1], chamada.arg[2])
    /\ \E i \in 1..Len(lancamentos) :
          /\ lancamentos[i].status = "Pendente"
          /\ lancamentos[i].data_baixa = Data1
          /\ lancamentos[i].conta_dre_id = 1
    /\ dre_vals.receita_bruta = 100000

\* C3: remover_conta_dre(id), called while an entry has conta_dre_id = id,
\* returns False and leaves the accounts, the entries, both counters (and
\* the other collections) and the file as they were.
C3_RemoverContaEmUso ==
    [][ (/\ chamada'.op = "remover_conta_dre"
         /\ \E i \in 1..Len(lancamentos) :
               lancamentos[i].conta_dre_id = chamada'.arg)
        => (ret' = "False" /\ UNCHANGED <<mem_vars, arquivo>>) ]_vars

C3_Witness ==
    /\ chamada.op = "remover_conta_dre"
    /\ ret = "False"
    /\ \E i \in 1..Len(lancamentos) : lancamentos[i].conta_dre_id = chamada.arg
    /\ \E i \in 1..Len(contas_dre) : contas_dre[i].id = chamada.arg

\* C4: in drefluxo.py every stored entry has a non-empty data_baixa exactly
\* when its status is Recebido or Pago, and an empty one exactly when its
\* status is Pendente.
BaixaConsistente(l) ==
    /\ StrTruthy(l.data_baixa) <=> l.status \in {"Recebido", "Pago"}
    /\ ~StrTruthy(l.data_baixa) <=> l.status = "Pendente"

C4_BaixaConsistente ==
    variant = "drefluxo" =>
        \A i \in 1..Len(lancamentos) : BaixaConsistente(lancamentos[i])

\* C5: ids are assigned from the counters, which start at 1 and never go
\* down: an added account (entry) gets the counter's value, greater than
\* every id assigned before, and the counter moves past it; so stored
\* accounts have pairwise distinct ids, all below the counter, and a removed
\* id is not assigned again.
C5_Passo ==
    /\ next_conta_dre_id' >= next_conta_dre_id
    /\ next_lanc_id' >= next_lanc_id
    /\ chamada'.op = "adicionar_conta_dre" =>
          /\ Len(contas_dre') = Len(contas_dre) + 1
          /\ contas_dre'[Len(contas_dre')].id = next_conta_dre_id
          /\ next_conta_dre_id' = next_conta_dre_id + 1
    /\ (chamada'.op = "adicionar_lancamento" /\ ret' = "Lancamento") =>
          /\ Len(lancamentos') = Len(lancamentos) + 1
          /\ lancamentos'[Len(lancamentos')].id = next_lanc_id
          /\ next_lanc_id' = next_lanc_id + 1
    /\ (chamada'.op = "adicionar_lancamento" /\ ret' # "Lancamento") =>
          next_lanc_id' = next_lanc_id

C5_Estado ==
    /\ \A i \in 1..Len(contas_dre) : contas_dre[i].id < next_conta_dre_id
    /\ \A i, j \in 1..Len(contas_dre) :
          i # j => contas_dre[i].id # contas_dre[j].id
    /\ \A i \in 1..Len(lancamentos) : lancamentos[i].id < next_lanc_id

C6_MutacaoSalva ==
    [][ (/\ chamada'.op \in MutatorOps
         /\ ret' # "ValueError"
         /\ mem_vars' # mem_vars)
        => arquivo' = [existe |-> TRUE, json_ok |-> TRUE,
                       dados |-> [contas_dre |-> contas_dre',
                                  lancamentos |-> lancamentos',
                                  bancos |-> bancos',
                                  categorias |-> categorias',
                                  next_conta_dre_id |-> next_conta_dre_id',
                                  next_lanc_id |-> next_lanc_id']] ]_vars

C6_Witness ==
    /\ chamada.op = "remover_categoria"
    /\ ret = "True"
    /\ Len(lancamentos) > 0
    /\ Len(bancos) > 0
    /\ arquivo.json_ok
    /\ arquivo.dados.categorias = <<>>

\* C7: salvar_dados followed by carregar_dados in a fresh instance of the
\* same variant gives back the same accounts, entries, banks and
\* categories, in the same order, and the same two counters.
C7_IdaEVolta ==
    carregar_dados(variant, salvar_dados(arquivo, Mem, "ok"), SistemaVazio) = Mem

C7_Witness ==
    /\ chamada.op = "Sistema"
    /\ chamada.arg.json_ok
    /\ chamada.arg.dados = Serializar(Mem)
    /\ Len(lancamentos) > 0
    /\ lancamentos[1].valor = 40000
    /\ Len(bancos) > 0
    /\ Len(categorias) > 0
    /\ Len(contas_dre) > Len(padrao)
    /\ next_lanc_id > 1

\* C8: when the load of the file fails, at whatever point, carregar_dados
\* leaves the four collections empty and both counters at 1, whether it
\* runs in a fresh Sistema or in one that holds data; the Sistema built
\* over such a file is the one built over no file.
FalhaAoCarregar(arq) ==
    arq.existe /\ CarregarTry(variant, arq, SistemaVazio).erro

C8_FalhaEsvazia ==
    (chamada.op = "Sistema" /\ FalhaAoCarregar(chamada.arg)) =>
        /\ carregar_dados(variant, chamada.arg, SistemaVazio) = SistemaVazio
        /\ carregar_dados(variant, chamada.arg, Mem) = SistemaVazio
        /\ Mem = carregar_contas_dre_padrao(variant, SistemaVazio)

C8_Witness ==
    /\ chamada.op = "Sistema"
    /\ FalhaAoCarregar(chamada.arg)
    /\ chamada.arg.json_ok
    /\ Len(CarregarTry(variant, chamada.arg, SistemaVazio).mem.contas_dre) > 0

\* C9: Sistema() over no file gives the seven default accounts with ids 1
\* to 7, next_conta_dre_id = 8 and nothing else; Sistema() over a file that
\* loads adds no account to those of the file.
C9_SementeSoSemArquivo ==
    chamada.op = "Sistema" =>
        /\ ~chamada.arg.existe =>
              /\ Len(contas_dre) = 7
              /\ \A i \in 1..7 :
                    /\ contas_dre[i].id = i
                    /\ contas_dre[i].nome = padrao[i][1]
                    /\ contas_dre[i].dre_field = padrao[i][2]
                    /\ contas_dre[i].tipo = padrao[i][3]
              /\ next_conta_dre_id = 8
              /\ lancamentos = <<>> /\ bancos = <<>> /\ categorias = <<>>
        /\ (chamada.arg.existe /\ ~FalhaAoCarregar(chamada.arg)) =>
              Len(contas_dre) = Len(chamada.arg.dados.contas_dre)

\* C10: in dre.py, impostos and despesas_administrativas are the sums, over
\* the accounts of that field with percentual > 0, of receita_bruta *
\* percentual / 100, receita_bruta being the final one; accounts with
\* percentual <= 0 or of another field add nothing.  receita_bruta = 1000
\* with one impostos account at 5 percent gives impostos = 50.
RECURSIVE SomaPercentuais(_, _)
SomaPercentuais(campo, n) ==
    IF n = 0 THEN 0
    ELSE SomaPercentuais(campo, n - 1)
         + (IF contas_dre[n].dre_field = campo /\ contas_dre[n].percentual > 0
            THEN (dre_vals.receita_bruta * contas_dre[n].percentual) \div 100
            ELSE 0)

C10_PassoPercentual ==
    (variant = "dre" /\ chamada.op = "calcular_dre") =>
        /\ dre_vals.impostos = SomaPercentuais("impostos", Len(contas_dre))
        /\ dre_vals.despesas_administrativas =
              SomaPercentuais("despesas_administrativas", Len(contas_dre))
        /\ (/\ dre_vals.receita_bruta = 100000
            /\ Cardinality({i \in 1..Len(contas_dre) :
                              contas_dre[i].dre_field = "impostos"}) = 1
            /\ \E i \in 1..Len(contas_dre) :
                  /\ contas_dre[i].dre_field = "impostos"
                  /\ contas_dre[i].percentual = 5)
           => dre_vals.impostos = 5000

C10_Witness ==
    /\ variant = "dre"
    /\ chamada.op = "calcular_dre"
    /\ dre_vals.receita_bruta = 100000
    /\ dre_vals.impostos = 5000
    /\ dre_vals.despesas_administrativas = 10000

\* C11: the rows of the cash-flow view are in non-decreasing calendar order
\* of the date they show (data_baixa when present, else data_vencimento),
\* the dates being compared as dates.
C11_OrdemDeCalendario ==
    chamada.op = "atualizar_fluxo_caixa_view" =>
        \A k \in 1..(Len(fluxo.rows) - 1) :
            strptime(fluxo.rows[k].data) <= strptime(fluxo.rows[k + 1].data)

\* C12: only entries with status Recebido or Pago give a row; a row carries
\* the amount of its entry as inflow (receivable) or as outflow (payable)
\* and zero in the other; the balance of row k is the sum of the inflows
\* minus the sum of the outflows of rows 1 to k.  A settled receivable of
\* 100 followed in date order by a settled payable of 40 gives 100, then 60.
RECURSIVE SaldoAte(_, _)
SaldoAte(rows, k) ==
    IF k = 0 THEN 0
    ELSE SaldoAte(rows, k - 1) + rows[k].entrada - rows[k].saida

LinhaDe(row, l) ==
    /\ l.status \in {"Recebido", "Pago"}
    /\ row.data = DataLancamento(l)
    /\ \/ l.tipo = "receber" /\ row.tipo = "Receita"
          /\ row.entrada = l.valor /\ row.saida = 0
       \/ l.tipo = "pagar" /\ row.tipo = "Despesa"
          /\ row.saida = l.valor /\ row.entrada = 0

SemRepeticaoEOrdenada(l) ==
    /\ \A i, j \in 1..Len(l) : i # j => l[i] # l[j]
    /\ \A i \in 1..(Len(l) - 1) : ~StrLt(l[i + 1], l[i])

C13_ListasSemRepeticao ==
    SemRepeticaoEOrdenada(bancos) /\ SemRepeticaoEOrdenada(categorias)

\* C14: deleting a bank (a category) that an entry uses is rejected: the
\* call reports the failure (False, or the error dialog of the handler) and
\* the list is left as it was.
C14_ExclusaoEmUsoRejeitada ==
    [][ /\ (/\ chamada'.op \in {"remover_banco", "_acao_excluir_banco"}
            /\ EmUsoBanco(Mem, chamada'.arg))
           => (ret' \in {"False", "showerror: em uso"} /\ bancos' = bancos)
        /\ (/\ chamada'.op \in {"remover_categoria", "_acao_excluir_categoria"}
            /\ EmUsoCategoria(Mem, chamada'.arg))
           => (ret' \in {"False", "showerror: em uso"}
               /\ categorias' = categorias) ]_vars

\* C15: adicionar_lancamento and atualizar_lancamento never raise: a call
\* whose amount text cannot be parsed reports the failure through its
\* return value and leaves the entries, the entry counter and the file as
\* they were.
C15_ValorIlegivelNaoLevanta ==
    [][ chamada'.op \in {"adicionar_lancamento", "atualizar_lancamento"} =>
          /\ ret' # "ValueError"
          /\ ret' \notin {"Lancamento", "True"} =>
                UNCHANGED <<lancamentos, next_lanc_id, arquivo>> ]_vars

LimitesLegiveis(data_inicio, data_fim) ==
    /\ data_inicio # EmptyStr /\ data_fim # EmptyStr
    /\ strptime(data_inicio) # ValueError /\ strptime(data_fim) # ValueError

C16_PeriodoInvertido ==
    (/\ chamada.op = "calcular_dre"
     /\ LimitesLegiveis(chamada.arg[1], chamada.arg[2])
     /\ strptime(chamada.arg[1]) > strptime(chamada.arg[2]))
    => \A f \in DreFields : dre_vals[f] = 0

C16_Witness ==
    /\ variant = "dre"
    /\ chamada.op = "calcular_dre"
    /\ chamada.arg = <<Data1, Data2>>
    /\ \E i \in 1..Len(contas_dre) : contas_dre[i].percentual > 0
    /\ \E i \in 1..Len(lancamentos) :
          /\ lancamentos[i].status = "Recebido"
          /\ lancamentos[i].data_baixa = Data1
          /\ lancamentos[i].conta_dre_id = 1
    /\ dre_vals = DreZero

\* the field of the account an entry refers to ("" when there is none), and
\* the sum of the amounts of the entries of a set of positions
CampoDe(l) ==
    LET cs == {i \in 1..Len(contas_dre) : contas_dre[i].id = l.conta_dre_id}
    IN  IF cs = {} THEN "" ELSE contas_dre[CHOOSE i \in cs : TRUE].dre_field

RECURSIVE SomaValores(_)
SomaValores(S) ==
    IF S = {} THEN 0
    ELSE LET i == CHOOSE j \in S : TRUE
         IN  lancamentos[i].valor + SomaValores(S \ {i})

\* the fields that are plain sums of entries: the five of both files and,
\* in drefluxo.py, impostos and despesas_administrativas too
CamposSomados ==
    {"receita_bruta", "custo", "investimento", "emprestimos", "distribuicao_lucro"}
    \cup (IF variant = "drefluxo" THEN {"impostos", "despesas_administrativas"}
          ELSE {})

\* C18: with two parseable bounds, an entry counts exactly when its status
\* is Recebido or Pago, its data_baixa is non-empty and a date, and
\* data_inicio <= data_baixa <= data_fim, both ends included.
NoPeriodo(l, data_inicio, data_fim) ==
    /\ l.status \in {"Recebido", "Pago"}
    /\ l.data_baixa # EmptyStr
    /\ strptime(l.data_baixa) # ValueError
    /\ strptime(data_inicio) <= strptime(l.data_baixa)
    /\ strptime(l.data_baixa) <= strptime(data_fim)

C18_FiltroDePeriodo ==
    (/\ chamada.op = "calcular_dre"
     /\ LimitesLegiveis(chamada.arg[1], chamada.arg[2]))
    => \A f \in CamposSomados :
          dre_vals[f] = SomaValores({i \in 1..Len(lancamentos) :
                            /\ NoPeriodo(lancamentos[i], chamada.arg[1], chamada.arg[2])
                            /\ CampoDe(lancamentos[i]) = f})

C18_Witness ==
    /\ chamada.op = "calcular_dre"
    /\ chamada.arg = <<Data2, Data1>>
    /\ Len(lancamentos) = 2
    /\ lancamentos[1].status = "Recebido" /\ lancamentos[1].data_baixa = Data1
    /\ lancamentos[1].conta_dre_id = 1
    /\ lancamentos[2].status = "Pago" /\ lancamentos[2].data_baixa = DataRuim
    /\ lancamentos[2].conta_dre_id = 1
    /\ dre_vals.receita_bruta = 50000

\* C19: when a bound is absent or empty (none given, or one only), every
\* entry with status Recebido or Pago counts, whatever its data_baixa.
C19_SemFiltro ==
    (/\ chamada.op = "calcular_dre"
     /\ chamada.arg[1] = EmptyStr \/ chamada.arg[2] = EmptyStr)
    => \A f \in CamposSomados :
          dre_vals[f] = SomaValores({i \in 1..Len(lancamentos) :
                            /\ lancamentos[i].status \in {"Recebido", "Pago"}
                            /\ CampoDe(lancamentos[i]) = f})

C19_Witness ==
    /\ chamada.op = "calcular_dre"
    /\ chamada.arg = <<Data2, EmptyStr>>
    /\ Len(lancamentos) = 2
    /\ lancamentos[1].status = "Recebido" /\ lancamentos[1].data_baixa = DataRuim
    /\ lancamentos[1].conta_dre_id = 1
    /\ lancamentos[2].status = "Recebido" /\ lancamentos[2].data_baixa = EmptyStr
    /\ lancamentos[2].conta_dre_id = 1
    /\ dre_vals.receita_bruta = 100000

\* C20: receita_bruta, custo, investimento, emprestimos and
\* distribuicao_lucro are the sums of the amounts of the considered entries
\* whose account has that field, whatever the direction of the entries and
\* their order.  With no percentage account, a settled receivable of 500
\* on receita_bruta and a settled payable of 100 on custo give receita_bruta
\* 500, custo 100, receita_liquida 500, lucro_bruto 400,
\* resultado_operacional 400, resultado_periodo 400.
Invertido(l) == [l EXCEPT !.tipo = IF @ = "pagar" THEN "receber" ELSE "pagar"]

Reverso(ls) == [i \in 1..Len(ls) |-> Invertido(ls[Len(ls) + 1 - i])]

C20_SomaPorCampo ==
    chamada.op = "calcular_dre" =>
        /\ \A f \in {"receita_bruta", "custo", "investimento", "emprestimos",
                      "distribuicao_lucro"} :
              dre_vals[f] = SomaValores({i \in 1..Len(lancamentos) :
                                /\ Considerado(lancamentos[i], chamada.arg[1],
                                               chamada.arg[2])
                                /\ CampoDe(lancamentos[i]) = f})
        /\ dre_vals = calcular_dre(variant,
                                   [Mem EXCEPT !.lancamentos = Reverso(@)],
                                   chamada.arg[1], chamada.arg[2])
        /\ (/\ variant = "drefluxo"
            /\ dre_vals.receita_bruta = 50000 /\ dre_vals.custo = 10000)
           => /\ dre_vals.receita_liquida = 50000
              /\ dre_vals.lucro_bruto = 40000
              /\ dre_vals.resultado_operacional = 40000
              /\ dre_vals.resultado_periodo = 40000

C20_Witness ==
    /\ variant = "drefluxo"
    /\ chamada.op = "calcular_dre"
    /\ Len(lancamentos) = 2
    /\ lancamentos[1].tipo = "pagar" /\ lancamentos[1].conta_dre_id = 3
    /\ lancamentos[2].tipo = "receber" /\ lancamentos[2].conta_dre_id = 1
    /\ dre_vals.receita_bruta = 50000
    /\ dre_vals.custo = 10000
    /\ dre_vals.lucro_bruto = 40000
    /\ dre_vals.resultado_periodo = 40000

\* C21: the two files differ only in how impostos and
\* despesas_administrativas are fed.  In dre.py a considered entry on an
\* account of one of these fields changes nothing in the result; in
\* drefluxo.py its amount is added to the field.  On a store with no
\* percentual > 0 (on an account of these two fields: a percentage on
\* another account is never read) and no considered entry on these fields,
\* dre.py returns what drefluxo.py returns.
CamposPercentuais == {"impostos", "despesas_administrativas"}

EmCampoPercentual(l) ==
    /\ Considerado(l, chamada.arg[1], chamada.arg[2])
    /\ CampoDe(l) \in CamposPercentuais

C21_DiferencaEntreVariantes ==
    chamada.op = "calcular_dre" =>
        /\ variant = "dre" =>
              dre_vals = calcular_dre("dre",
                             [Mem EXCEPT !.lancamentos =
                                 SelectSeq(@, LAMBDA l : ~EmCampoPercentual(l))],
                             chamada.arg[1], chamada.arg[2])
        /\ variant = "drefluxo" =>
              \A f \in CamposPercentuais :
                  dre_vals[f] = SomaValores({i \in 1..Len(lancamentos) :
                                    /\ EmCampoPercentual(lancamentos[i])
                                    /\ CampoDe(lancamentos[i]) = f})
        /\ (/\ variant = "dre"
            /\ \A i \in 1..Len(contas_dre) : ~AplicaPercentual(contas_dre[i])
            /\ \A i \in 1..Len(lancamentos) : ~EmCampoPercentual(lancamentos[i]))
           => dre_vals = calcular_dre("drefluxo", Mem, chamada.arg[1],
                                      chamada.arg[2])

C21_Witness ==
    /\ variant = "dre"
    /\ chamada.op = "calcular_dre"
    /\ \E i \in 1..Len(lancamentos) :
          /\ EmCampoPercentual(lancamentos[i])
          /\ lancamentos[i].valor = 40000
    /\ dre_vals.receita_bruta = 100000
    /\ dre_vals.impostos = 15000

\* C22: investimento and emprestimos enter no subtotal: receita_liquida,
\* lucro_bruto, resultado_operacional and resultado_periodo are those of the
\* store without the entries on investimento and emprestimos accounts, so
\* two stores that differ only in such entries give the same four values.
SemInvestimentos(m) ==
    [m EXCEPT !.lancamentos =
        SelectSeq(@, LAMBDA l : CampoDe(l) \notin {"investimento", "emprestimos"})]

C22_InvestimentoForaDosSubtotais ==
    chamada.op = "calcular_dre" =>
        LET d == calcular_dre(variant, SemInvestimentos(Mem), chamada.arg[1],
                              chamada.arg[2])
        IN  \A f \in {"receita_liquida", "lucro_bruto", "resultado_operacional",
                      "resultado_periodo"} : dre_vals[f] = d[f]

C22_Witness ==
    /\ chamada.op = "calcular_dre"
    /\ dre_vals.investimento = 10000
    /\ dre_vals.receita_bruta = 50000
    /\ dre_vals.resultado_periodo =
          dre_vals.receita_bruta - dre_vals.impostos
          - dre_vals.despesas_administrativas

\* C23: when both bounds are given and one of them is not a date,
\* calcular_dre returns what it returns with no bound: the result over all
\* the settled entries.
C23_LimiteIlegivelDesativaFiltro ==
    (/\ chamada.op = "calcular_dre"
     /\ chamada.arg[1] # EmptyStr /\ chamada.arg[2] # EmptyStr
     /\ strptime(chamada.arg[1]) = ValueError
        \/ strptime(chamada.arg[2]) = ValueError)
    => /\ ret = "dict"
       /\ dre_vals = calcular_dre(variant, Mem, EmptyStr, EmptyStr)
       /\ dre_vals.receita_bruta =
             SomaValores({i \in 1..Len(lancamentos) :
                            /\ lancamentos[i].status \in {"Recebido", "Pago"}
                            /\ CampoDe(lancamentos[i]) = "receita_bruta"})

C23_Witness ==
    /\ chamada.op = "calcular_dre"
    /\ chamada.arg = <<Data2, DataRuim>>
    /\ Len(lancamentos) = 2
    /\ lancamentos[1].data_baixa = Data1 /\ lancamentos[1].conta_dre_id = 1
    /\ lancamentos[2].data_baixa = Data3 /\ lancamentos[2].conta_dre_id = 1
    /\ dre_vals.receita_bruta = 100000

\* C24: a considered entry whose conta_dre_id is None, or the id of no
\* stored account, adds to no field: the result is that of the store
\* without such entries.
SemContaOrfa(m) ==
    [m EXCEPT !.lancamentos =
        SelectSeq(@, LAMBDA l : \E i \in 1..Len(contas_dre) :
                                    contas_dre[i].id = l.conta_dre_id)]

C24_ContaAusenteNaoContribui ==
    chamada.op = "calcular_dre" =>
        dre_vals = calcular_dre(variant, SemContaOrfa(Mem), chamada.arg[1],
                                chamada.arg[2])

C24_Witness ==
    /\ chamada.op = "calcular_dre"
    /\ chamada.arg = <<Data2, Data1>>
    /\ Len(lancamentos) = 2
    /\ lancamentos[1].conta_dre_id = None /\ lancamentos[1].data_baixa = Data1
    /\ lancamentos[2].conta_dre_id = ContaInexistente
    /\ lancamentos[2].data_baixa = Data1
    /\ dre_vals = DreZero

----------------------------------------------------------------------------
(* SpecDuas: two processes, each with its own Sistema, on one file.  The    *)
(* file was left by an earlier run; both processes constructed their        *)
(* Sistema from it, and each makes one mutating call.  salvar_dados is two  *)
(* steps on the file: open(..., 'w') empties it, json.dump and the close    *)
(* write the text; the steps of the two processes interleave.               *)

\* the fields of the Sistema of process p
MemDe(p) == IF p = "a" THEN Mem ELSE outra

OutroProcesso(p) == IF p = "a" THEN "b" ELSE "a"

\* call k of those the processes choose from, all of which reach
\* salvar_dados on the seeded store
OperacaoDuas(v, m, k) ==
    CASE k = 1 -> adicionar_banco(m, BancoBB)
      [] k = 2 -> adicionar_categoria(m, CategoriaSal)
      [] k = 3 -> adicionar_lancamento(v, m, LancArg("receber", ValorTxt(MilReais), "Pendente", EmptyStr, EmptyStr, 1, EmptyStr))
      [] k = 4 -> remover_conta_dre(m, 7)
      [] k = 5 -> adicionar_conta_dre(v, m, ContaFrete[1], ContaFrete[2], ContaFrete[3], ContaFrete[4])

\* the file is the one an earlier run of the program left; each process
\* constructed its Sistema over it
InitDuas ==
    /\ variant \in {"dre", "drefluxo"}
    /\ arquivo = Sistema(variant, ArquivoAusente, "ok").arquivo
    /\ SetMem(Sistema(variant, arquivo, "ok").mem)
    /\ outra = Sistema(variant, arquivo, "ok").mem
    /\ gravacao = [UmaInstancia EXCEPT !.b = "pronto"]
    /\ chamada = [op |-> "Sistema", arg |-> arquivo]
    /\ ret = "Sistema"
    /\ dre_vals = DreZero
    /\ fluxo = FluxoVazio

\* process p makes call k: the call changes the fields of its Sistema and
\* enters salvar_dados, whose open(..., 'w') leaves the file empty
ChamarEAbrir(p, k) ==
    LET r == OperacaoDuas(variant, MemDe(p), k)
    IN  /\ gravacao[p] = "pronto"
        /\ r.salva
        /\ IF p = "a"
           THEN /\ contas_dre' = r.mem.contas_dre
                /\ lancamentos' = r.mem.lancamentos
                /\ bancos' = r.mem.bancos
                /\ categorias' = r.mem.categorias
                /\ next_conta_dre_id' = r.mem.next_conta_dre_id
                /\ next_lanc_id' = r.mem.next_lanc_id
                /\ outra' = outra
           ELSE /\ outra' = r.mem
                /\ UNCHANGED mem_vars
        /\ arquivo' = ArquivoIlegivel
        /\ gravacao' = [gravacao EXCEPT ![p] = "aberto", !.op[p] = k,
                           !.escrito = 0,
                           !.sobreposta = @ \/ gravacao[OutroProcesso(p)] = "aberto"]
        /\ ret' = r.ret
        /\ chamada' = [op |-> "chamada", arg |-> k, processo |-> p]
        /\ UNCHANGED <<variant, dre_vals, fluxo>>

\* The length of the text json.dump(dados, f, indent=2) writes for the dict
\* d.  A value is an int (its digits), a float (digits, point, decimals),
\* None ("null") or a str (its characters and two quotes).  The members of
\* a dict stand each on its line, as "key": value after n spaces, separated
\* by a comma and a newline.  A list under a key of the document is [] when
\* empty; else its brackets are on lines of their own and each item comes
\* after four spaces; an item that is a dict has its braces on lines of their
\* own, the closing one after four spaces, and its members after six.
TamanhoTexto(d) ==
    LET RECURSIVE Digitos(_)
        Digitos(n) == IF n < 10 THEN 1 ELSE 1 + Digitos(n \div 10)
        TamanhoFloat(centavos) ==
            Digitos(centavos \div 100) + (IF centavos % 10 = 0 THEN 2 ELSE 3)
        TamanhoCampo(k, x) ==
            CASE k \in {"id", "next_conta_dre_id", "next_lanc_id"} -> Digitos(x)
              [] k = "conta_dre_id" -> IF x = None THEN 4 ELSE Digitos(x)
              [] k = "valor" -> TamanhoFloat(x)
              [] k = "percentual" -> Digitos(x) + 2
              [] OTHER -> Len(x) + 2
        RECURSIVE TamanhoMembros(_, _, _)
        TamanhoMembros(r, ks, n) ==
            IF ks = {} THEN 0
            ELSE LET k == CHOOSE x \in ks : TRUE
                 IN  n + Len(k) + 4 + TamanhoCampo(k, r[k])
                     + (IF ks = {k} THEN 0 ELSE 2)
                     + TamanhoMembros(r, ks \ {k}, n)
        TamanhoDict(r) == 2 + TamanhoMembros(r, DOMAIN r, 6) + 6
        RECURSIVE TamanhoItens(_, _)
        TamanhoItens(l, dicts) ==
            IF Len(l) = 0 THEN 0
            ELSE 4 + (IF dicts THEN TamanhoDict(l[1]) ELSE Len(l[1]) + 2)
                 + (IF Len(l) = 1 THEN 0 ELSE 2)
                 + TamanhoItens(Tail(l), dicts)
        TamanhoLista(l, dicts) ==
            IF Len(l) = 0 THEN 2 ELSE 2 + TamanhoItens(l, dicts) + 4
        RECURSIVE TamanhoChaves(_)
        TamanhoChaves(ks) ==
            IF ks = {} THEN 0
            ELSE LET k == CHOOSE x \in ks : TRUE
                 IN  2 + Len(k) + 4
                     + (IF k \in {"next_conta_dre_id", "next_lanc_id"}
                        THEN Digitos(d[k])
                        ELSE TamanhoLista(d[k], k \in {"contas_dre", "lancamentos"}))
                     + (IF ks = {k} THEN 0 ELSE 2)
                     + TamanhoChaves(ks \ {k})
    IN  2 + TamanhoChaves(DOMAIN d) + 2

\* json.dump and the close of the with block of process p, and what they
\* leave in the file.  Each process writes from offset 0 of
\* its own file object, and a text shorter than the buffer of the file
\* object goes out in one write.  On an empty file the text of p is all there
\* is.  When the other process wrote after the file was emptied, the text of
\* p covers the beginning of that text: the end of a longer text stays behind
\* the text of p, and the file is no JSON document.
Escrever(p) ==
    /\ gravacao[p] = "aberto"
    /\ arquivo' = IF TamanhoTexto(Serializar(MemDe(p))) >= gravacao.escrito
                  THEN salvar_dados(arquivo, MemDe(p), "ok")
                  ELSE ArquivoIlegivel
    /\ gravacao' = [gravacao EXCEPT
                       ![p] = "salvo", !.ultimo = p,
                       !.escrito = IF TamanhoTexto(Serializar(MemDe(p))) >= @
                                   THEN TamanhoTexto(Serializar(MemDe(p)))
                                   ELSE @]
    /\ chamada' = [op |-> "salvar_dados", arg |-> p, processo |-> p]
    /\ UNCHANGED <<variant, mem_vars, outra, ret, dre_vals, fluxo>>

NextDuas ==
    \/ \E p \in {"a", "b"}, k \in 1..5 : ChamarEAbrir(p, k)
    \/ \E p \in {"a", "b"} : Escrever(p)

SpecDuas == InitDuas /\ [][NextDuas]_vars

----------------------------------------------------------------------------
(* Two processes on one file *)

AmbasSalvas == gravacao.a = "salvo" /\ gravacao.b = "salvo"

\* the file holds exactly the fields m
ArquivoTem(m) ==
    /\ arquivo.existe /\ arquivo.json_ok
    /\ arquivo.dados =
          [contas_dre |-> m.contas_dre, lancamentos |-> m.lancamentos,
           bancos |-> m.bancos, categorias |-> m.categorias,
           next_conta_dre_id |-> m.next_conta_dre_id,
           next_lanc_id |-> m.next_lanc_id]

\* the store with the changes of both processes: the call of the second made
\* on the store the call of the first left (in either order)
Fundido(p) ==
    OperacaoDuas(variant,
                 OperacaoDuas(variant,
                              Sistema(variant, Sistema(variant, ArquivoAusente, "ok").arquivo, "ok").mem,
                              gravacao.op[p]).mem,
                 gravacao.op[OutroProcesso(p)]).mem

\* last writer wins: the file holds the state of the process that wrote
\* last; when the two states differ, the state of the other process is not
\* in the file, and neither is a store with both changes
UltimoVence ==
    /\ ArquivoTem(MemDe(gravacao.ultimo))
    /\ Mem # outra =>
          /\ ~ArquivoTem(MemDe(OutroProcesso(gravacao.ultimo)))
          /\ ~ArquivoTem(Fundido("a"))
          /\ ~ArquivoTem(Fundido("b"))

\* C25 as stated: after both processes made one mutating call each, from
\* Sistemas loaded before the call of the other, the file holds exactly the
\* state of the process that saved last, in every interleaving
C25_UltimoVenceSempre == AmbasSalvas => UltimoVence

\* C25, amended: when the open() of the second salvar_dados comes after the
\* write of the first, the file holds exactly the state of the process that
\* saved last, without the change of the other and without a merge
C25_UltimoVenceSemSobreposicao ==
    (AmbasSalvas /\ ~gravacao.sobreposta) => UltimoVence

\* process a added a bank and saved, then process b added an entry and
\* saved: the file has the entry and not the bank
C25_Witness ==
    /\ AmbasSalvas /\ ~gravacao.sobreposta
    /\ gravacao.op = [a |-> 1, b |-> 3]
    /\ gravacao.ultimo = "b"
    /\ bancos = <<BancoBB>>
    /\ arquivo.json_ok
    /\ arquivo.dados.bancos = <<>>
    /\ Len(arquivo.dados.lancamentos) = 1

----------------------------------------------------------------------------
(* Removal of what is not there *)

ContaDesconhecida(id) ==
    /\ \A i \in 1..Len(contas_dre) : contas_dre[i].id # id
    /\ \A i \in 1..Len(lancamentos) : lancamentos[i].conta_dre_id # id

LancamentoDesconhecido(id) == \A i \in 1..Len(lancamentos) : lancamentos[i].id # id

\* C26: remover_conta_dre with an id that no account and no entry has returns
\* True, remover_lancamento with an id that no entry has returns False, and
\* both leave the lists and the counters of the Sistema as they were
C26_RemocaoDeAusente ==
    [][ /\ (chamada'.op = "remover_conta_dre" /\ ContaDesconhecida(chamada'.arg))
            => (ret' = "True" /\ UNCHANGED mem_vars)
        /\ (chamada'.op = "remover_lancamento" /\ LancamentoDesconhecido(chamada'.arg))
            => (ret' = "False" /\ UNCHANGED mem_vars) ]_vars

\* remover_conta_dre was called with the id that no account was given yet:
\* True, and the seven seeded accounts are all there
C26_Witness ==
    /\ chamada.op = "remover_conta_dre"
    /\ chamada.arg = MaxContaId
    /\ ret = "True"
    /\ next_conta_dre_id <= MaxContaId
    /\ Len(contas_dre) = Len(padrao)
    /\ ContaDesconhecida(MaxContaId)

----------------------------------------------------------------------------
(* SpecFalha: the registry and the ledger when the write of salvar_dados    *)
(* may fail.                                                                *)

NextFalha ==
    \/ \E w \in Escritas : AdicionarBanco(BancoBB, w)
    \/ \E w \in Escritas : RemoverBanco(BancoBB, w)
    \/ \E a \in ContaArgs, w \in Escritas : AdicionarContaDre(a, w)
    \/ \E w \in Escritas : RemoverContaDre(MaxContaId, w)
    \/ \E a \in LancArgsArquivo, w \in Escritas : AdicionarLancamento(a, w)
    \/ \E i \in LancIdArgs, w \in Escritas : RemoverLancamento(i, w)

SpecFalha == Init /\ [][NextFalha]_vars

----------------------------------------------------------------------------
(* A save that fails *)

EscritaFalhou(c) == c.op \in MutatorOps /\ c.escrita \in {"erro_abrir", "erro_escrita"}

\* the file holds exactly the fields m
ArquivoDe(m) ==
    [existe |-> TRUE, json_ok |-> TRUE,
     dados |-> [contas_dre |-> m.contas_dre, lancamentos |-> m.lancamentos,
                bancos |-> m.bancos, categorias |-> m.categorias,
                next_conta_dre_id |-> m.next_conta_dre_id,
                next_lanc_id |-> m.next_lanc_id]]

RetornoDeFalha == {"False", "None", "ValueError"}

----------------------------------------------------------------------------
(* SpecIds: the ledger, from empty, under adicionar_lancamento,             *)
(* remover_lancamento and atualizar_lancamento with keywords that name      *)
(* attributes of the entry, id among them.                                  *)

\* keyword arguments of atualizar_lancamento
KwargsIds ==
    << << Kw("id", 1) >>,
       << Kw("id", MaxLancId) >>,
       << Kw("status", "Pago"), Kw("data_baixa", Data1) >>,
       << Kw("valor", ValorNum(40000)) >>,
       << Kw("conta_dre_id", None) >> >>

NextIds ==
    \/ \E a \in LancArgsArquivo : AdicionarLancamento(a, "ok")
    \/ \E i \in LancIdArgs, k \in DOMAIN KwargsIds : AtualizarLancamento(i, KwargsIds[k], "ok")
    \/ \E i \in LancIdArgs : RemoverLancamento(i, "ok")

SpecIds == Init /\ [][NextIds]_vars

----------------------------------------------------------------------------
(* Identity of the entries *)

\* C28: the ids of the stored entries are pairwise distinct in every state
\* reached from the empty ledger by adicionar_lancamento, remover_lancamento
\* and atualizar_lancamento with any keywords that name attributes
C28_IdsDistintos ==
    \A i, j \in 1..Len(lancamentos) :
        i # j => lancamentos[i].id # lancamentos[j].id

----------------------------------------------------------------------------
(* Construction over a file that does not load *)

\* C29: Sistema() over a file that exists and does not load ends with the
\* seven default accounts, ids 1 to 7, no entries, banks or categories, and
\* with that state written to the file in place of what the file held
C29_ArquivoIlegivelSubstituido ==
    (chamada.op = "Sistema" /\ FalhaAoCarregar(chamada.arg)) =>
        /\ Len(contas_dre) = 7
        /\ \A i \in 1..Len(contas_dre) :
              /\ contas_dre[i].id = i
              /\ contas_dre[i].nome = padrao[i][1]
              /\ contas_dre[i].dre_field = padrao[i][2]
        /\ lancamentos = <<>>
        /\ next_conta_dre_id = 8 /\ next_lanc_id = 1
        /\ arquivo = ArquivoDe(Mem)
        /\ arquivo # chamada.arg

\* the file was a JSON document whose last entry had lost a key, with
\* accounts, entries and banks in it: all of it is gone from the file
C29_Witness ==
    /\ chamada.op = "Sistema"
    /\ FalhaAoCarregar(chamada.arg)
    /\ chamada.arg.json_ok
    /\ Len(chamada.arg.dados.lancamentos) > 0
    /\ Len(chamada.arg.dados.bancos) > 0
    /\ arquivo.json_ok
    /\ arquivo.dados.lancamentos = <<>>
    /\ arquivo.dados.bancos = <<>>
    /\ Len(arquivo.dados.contas_dre) = 7

----------------------------------------------------------------------------
(* Calls rejected by the check of status against data_baixa (drefluxo.py)  *)

\* Pendente with a settlement date, or Recebido / Pago without one
BaixaIncoerente(status, data_baixa) ==
    \/ status = "Pendente" /\ data_baixa # EmptyStr
    \/ status \in {"Recebido", "Pago"} /\ data_baixa = EmptyStr

\* C30: in drefluxo.py an adicionar_lancamento rejected by the check returns
\* None and an atualizar_lancamento rejected by it returns False, and the
\* entries, next_lanc_id and the file stay as they were
C30_RejeicaoSemEfeito ==
    [][ variant = "drefluxo" =>
          /\ (/\ chamada'.op = "adicionar_lancamento"
              /\ BaixaIncoerente(chamada'.arg.status, chamada'.arg.data_baixa))
                => (ret' = "None"
                    /\ UNCHANGED <<lancamentos, next_lanc_id, arquivo>>)
          /\ (/\ chamada'.op = "atualizar_lancamento"
              /\ KwHas(chamada'.kwargs, "status")
              /\ KwHas(chamada'.kwargs, "data_baixa")
              /\ BaixaIncoerente(KwGet(chamada'.kwargs, "status"),
                                 KwGet(chamada'.kwargs, "data_baixa")))
                => (ret' = "False"
                    /\ UNCHANGED <<lancamentos, next_lanc_id, arquivo>>) ]_vars

\* atualizar_lancamento(1, status="Pendente", data_baixa="15/01/2024") on a
\* settled entry 1 was rejected: the entry is still settled, in memory and
\* in the file
C30_Witness ==
    /\ variant = "drefluxo"
    /\ chamada.op = "atualizar_lancamento"
    /\ chamada.kwargs = << Kw("status", "Pendente"), Kw("data_baixa", Data1) >>
    /\ ret = "False"
    /\ Len(lancamentos) > 0
    /\ lancamentos[1].id = chamada.arg
    /\ lancamentos[1].status = "Recebido"
    /\ lancamentos[1].data_baixa = Data1
    /\ arquivo.dados.lancamentos = lancamentos

====
